---- MODULE Spec2Model ----
(***************************************************************************)
(* Verification model of asr-cli-rs: the retry executor                    *)
(* (core/error.rs), the file processor and its resume ledger               *)
(* (processing/file_processor.rs), the controller run loop (controller.rs) *)
(* and the debounced file watcher (processing/file_processor.rs).          *)
(***************************************************************************)
EXTENDS Integers, Sequences, FiniteSets, TLC

(***************************************************************************)
(* Bounds of the model.                                                    *)
(***************************************************************************)
NumWorkers == 2
MaxCalls == 2
MaxRetriesCfg == 3

None == "None"

\* the media files of the model: one file per stem, an mp3 or a video
Stems == {"a", "b"}
MediaExts == {"mp3", "mp4"}

(***************************************************************************)
(* Retry executor: ErrorHandler / ErrorCounter (core/error.rs).            *)
(***************************************************************************)
VARIABLES max_retries, error_counts, total_retries, total_failures, total_successes,
          se_pc, se_ctx, retry_count, last_error, se_val, se_result,
          se_ncall, se_nfail, se_last, se_snap, se_solo, se_calls,
          se_sleeps, se_failed_attempts

retryVars == <<max_retries, error_counts, total_retries, total_failures, total_successes,
               se_pc, se_ctx, retry_count, last_error, se_val, se_result,
               se_ncall, se_nfail, se_last, se_snap, se_solo, se_calls, se_sleeps,
               se_failed_attempts>>

\* se_sleeps[w]: the delays the current call of worker w has slept, in order,
\* in tenths of a second; se_failed_attempts: the invocations of wrapped
\* operations that returned Err, over all calls

Workers == 1..NumWorkers
\* error-context labels: two labels of arbitrary callers, and the label the
\* controller builds per file, format!("处理文件失败: {}", filename)
CallerContexts == {<<"ctxA">>, <<"ctxB">>}
FileContext(filename) == <<"process_file failed: ">> \o filename
Contexts == CallerContexts \cup {FileContext(<<st, ".", x>>) : st \in Stems, x \in MediaExts}
Errors == {"e1", "e2"}
Values == {"v1", "v2"}

\* Result<T>: Ok(v) / Err(message); a message is a sequence of text pieces.
\* NoResult stands for "no value yet", NoError for last_error = None.
Ok(v) == [tag |-> "ok", val |-> v, msg |-> <<>>]
Err(m) == [tag |-> "err", val |-> None, msg |-> m]
NoResult == [tag |-> "none", val |-> None, msg |-> <<>>]
NoError == <<>>
IsOk(r) == r.tag = "ok"
IsErr(r) == r.tag = "err"

\* e.to_string() of an underlying error
ErrToString(e) == <<e>>

\* anyhow!("{}: {}", error_context, last_error)
CompositeError(ctx, lastErr) == ctx \o <<": ">> \o lastErr

\* the text sub occurs in the text msg
Contains(msg, sub) ==
    \E i \in 1..(Len(msg) - Len(sub) + 1) : SubSeq(msg, i, i + Len(sub) - 1) = sub

\* the outcomes of one invocation of the wrapped operation f()
OpOutcomes == {Ok(v) : v \in Values} \cup {Err(ErrToString(e)) : e \in Errors}

\* the counters of ErrorCounter, as one value
Counters == [error_counts |-> error_counts, total_retries |-> total_retries,
             total_failures |-> total_failures, total_successes |-> total_successes]

ZeroCounters == [error_counts |-> [c \in Contexts |-> 0], total_retries |-> 0,
                 total_failures |-> 0, total_successes |-> 0]

SeActive(w) == se_pc[w] \notin {"idle"}

\* ErrorHandler::new(max_retries, retry_delay): the counters are zero; the
\* value of max_retries is the one configured
RetryInit ==
    /\ max_retries \in Nat
    /\ error_counts = [c \in Contexts |-> 0]
    /\ total_retries = 0
    /\ total_failures = 0
    /\ total_successes = 0
    /\ se_pc = [w \in Workers |-> "idle"]
    /\ se_ctx = [w \in Workers |-> <<>>]
    /\ retry_count = [w \in Workers |-> 0]
    /\ last_error = [w \in Workers |-> NoError]
    /\ se_val = [w \in Workers |-> None]
    /\ se_result = [w \in Workers |-> NoResult]
    /\ se_ncall = [w \in Workers |-> 0]
    /\ se_nfail = [w \in Workers |-> 0]
    /\ se_last = [w \in Workers |-> NoResult]
    /\ se_snap = [w \in Workers |-> ZeroCounters]
    /\ se_solo = [w \in Workers |-> TRUE]
    /\ se_calls = 0
    /\ se_failed_attempts = 0
    /\ se_sleeps = [w \in Workers |-> <<>>]

\* ErrorHandler::new in a program started again
RetryReset ==
    /\ error_counts' = [c \in Contexts |-> 0]
    /\ total_retries' = 0
    /\ total_failures' = 0
    /\ total_successes' = 0
    /\ se_pc' = [w \in Workers |-> "idle"]
    /\ se_ctx' = [w \in Workers |-> <<>>]
    /\ retry_count' = [w \in Workers |-> 0]
    /\ last_error' = [w \in Workers |-> NoError]
    /\ se_val' = [w \in Workers |-> None]
    /\ se_result' = [w \in Workers |-> NoResult]
    /\ se_ncall' = [w \in Workers |-> 0]
    /\ se_nfail' = [w \in Workers |-> 0]
    /\ se_last' = [w \in Workers |-> NoResult]
    /\ se_snap' = [w \in Workers |-> ZeroCounters]
    /\ se_solo' = [w \in Workers |-> TRUE]
    /\ se_calls' = 0
    /\ UNCHANGED max_retries
    /\ se_failed_attempts' = 0
    /\ se_sleeps' = [w \in Workers |-> <<>>]

\* entry of safe_execute: retry_count = 0, last_error = None
SE_Start(w, c) ==
    /\ se_pc[w] = "idle"
    /\ se_calls' = se_calls + 1
    /\ se_pc' = [se_pc EXCEPT ![w] = "call"]
    /\ se_ctx' = [se_ctx EXCEPT ![w] = c]
    /\ retry_count' = [retry_count EXCEPT ![w] = 0]
    /\ last_error' = [last_error EXCEPT ![w] = NoError]
    /\ se_val' = [se_val EXCEPT ![w] = None]
    /\ se_result' = [se_result EXCEPT ![w] = NoResult]
    /\ se_ncall' = [se_ncall EXCEPT ![w] = 0]
    /\ se_nfail' = [se_nfail EXCEPT ![w] = 0]
    /\ se_last' = [se_last EXCEPT ![w] = NoResult]
    /\ se_snap' = [se_snap EXCEPT ![w] = Counters]
    /\ se_solo' = [v \in Workers |->
                     IF v = w THEN \A u \in Workers \ {w} : ~SeActive(u)
                     ELSE IF SeActive(v) THEN FALSE ELSE se_solo[v]]
    /\ UNCHANGED <<error_counts, total_retries, total_failures, total_successes>>
    /\ UNCHANGED max_retries
    /\ UNCHANGED se_failed_attempts
    /\ se_sleeps' = [se_sleeps EXCEPT ![w] = <<>>]

\* match f() { Ok(result) => ..., Err(e) => { last_error = Some(e.to_string()) ... } }
SE_Call(w, out) ==
    /\ se_pc[w] = "call"
    /\ se_ncall' = [se_ncall EXCEPT ![w] = @ + 1]
    /\ se_nfail' = [se_nfail EXCEPT ![w] = IF IsOk(out) THEN @ ELSE @ + 1]
    /\ se_last' = [se_last EXCEPT ![w] = out]
    /\ IF IsOk(out)
         THEN /\ se_pc' = [se_pc EXCEPT ![w] = "ok"]
              /\ se_val' = [se_val EXCEPT ![w] = out.val]
              /\ UNCHANGED last_error
         ELSE /\ se_pc' = [se_pc EXCEPT ![w] = "err"]
              /\ last_error' = [last_error EXCEPT ![w] = out.msg]
              /\ UNCHANGED se_val
    /\ UNCHANGED <<error_counts, total_retries, total_failures, total_successes,
                   se_ctx, retry_count, se_result, se_snap, se_solo, se_calls>>
    /\ UNCHANGED max_retries
    /\ se_failed_attempts' = IF IsOk(out) THEN se_failed_attempts ELSE se_failed_attempts + 1
    /\ UNCHANGED se_sleeps

\* variant: a success is counted only for a call that never failed
SE_CountSuccess_FirstTryOnly(w) ==
    /\ se_pc[w] = "ok"
    /\ total_successes' = IF retry_count[w] = 0 THEN total_successes + 1 ELSE total_successes
    /\ se_result' = [se_result EXCEPT ![w] = Ok(se_val[w])]
    /\ se_pc' = [se_pc EXCEPT ![w] = "done"]
    /\ UNCHANGED <<error_counts, total_retries, total_failures, se_ctx, retry_count,
                   last_error, se_val, se_ncall, se_nfail, se_last, se_snap, se_solo, se_calls>>
    /\ UNCHANGED max_retries
    /\ UNCHANGED se_failed_attempts
    /\ UNCHANGED se_sleeps

\* Ok arm: counters.total_successes += 1; return Ok(result)
SE_CountSuccess(w) ==
    /\ se_pc[w] = "ok"
    /\ total_successes' = total_successes + 1
    /\ se_result' = [se_result EXCEPT ![w] = Ok(se_val[w])]
    /\ se_pc' = [se_pc EXCEPT ![w] = "done"]
    /\ UNCHANGED <<error_counts, total_retries, total_failures, se_ctx, retry_count,
                   last_error, se_val, se_ncall, se_nfail, se_last, se_snap, se_solo, se_calls>>
    /\ UNCHANGED max_retries
    /\ UNCHANGED se_failed_attempts
    /\ UNCHANGED se_sleeps

\* ErrorHandler.retry_delay, in tenths of a second
retry_delay == 10
\* Duration::from_secs_f64(self.retry_delay * (retry_count as f64))
RetryDelayOf(n) == retry_delay * n

\* variant: the delay doubles with every retry
SE_CountError_ExponentialDelay(w) ==
    /\ se_pc[w] = "err"
    /\ error_counts' = [error_counts EXCEPT ![se_ctx[w]] = @ + 1]
    /\ total_retries' = total_retries + 1
    /\ retry_count' = [retry_count EXCEPT ![w] = @ + 1]
    /\ se_pc' = [se_pc EXCEPT ![w] =
                   IF retry_count[w] + 1 <= max_retries THEN "call" ELSE "exhausted"]
    /\ UNCHANGED <<total_failures, total_successes, se_ctx, last_error, se_val,
                   se_result, se_ncall, se_nfail, se_last, se_snap, se_solo, se_calls>>
    /\ UNCHANGED max_retries
    /\ UNCHANGED se_failed_attempts
    /\ se_sleeps' = [se_sleeps EXCEPT ![w] =
                       IF retry_count[w] + 1 <= max_retries
                         THEN Append(@, retry_delay * 2 ^ retry_count[w]) ELSE @]

\* variant: total_retries is written from the value the call read when it
\* began, without holding the lock over the read and the write
SE_CountError_StaleCounter(w) ==
    /\ se_pc[w] = "err"
    /\ error_counts' = [error_counts EXCEPT ![se_ctx[w]] = @ + 1]
    /\ total_retries' = se_snap[w].total_retries + retry_count[w] + 1
    /\ retry_count' = [retry_count EXCEPT ![w] = @ + 1]
    /\ se_pc' = [se_pc EXCEPT ![w] =
                   IF retry_count[w] + 1 <= max_retries THEN "call" ELSE "exhausted"]
    /\ UNCHANGED <<total_failures, total_successes, se_ctx, last_error, se_val,
                   se_result, se_ncall, se_nfail, se_last, se_snap, se_solo, se_calls>>
    /\ UNCHANGED max_retries
    /\ UNCHANGED se_failed_attempts
    /\ se_sleeps' = [se_sleeps EXCEPT ![w] =
                       IF retry_count[w] + 1 <= max_retries
                         THEN Append(@, RetryDelayOf(retry_count[w] + 1)) ELSE @]

\* variant: total_retries counts only the failures that are followed by a retry
SE_CountError_CountsRetriesOnly(w) ==
    /\ se_pc[w] = "err"
    /\ error_counts' = [error_counts EXCEPT ![se_ctx[w]] = @ + 1]
    /\ total_retries' = IF retry_count[w] + 1 <= max_retries
                           THEN total_retries + 1 ELSE total_retries
    /\ retry_count' = [retry_count EXCEPT ![w] = @ + 1]
    /\ se_pc' = [se_pc EXCEPT ![w] =
                   IF retry_count[w] + 1 <= max_retries THEN "call" ELSE "exhausted"]
    /\ UNCHANGED <<total_failures, total_successes, se_ctx, last_error, se_val,
                   se_result, se_ncall, se_nfail, se_last, se_snap, se_solo, se_calls>>
    /\ UNCHANGED max_retries
    /\ UNCHANGED se_failed_attempts
    /\ se_sleeps' = [se_sleeps EXCEPT ![w] =
                       IF retry_count[w] + 1 <= max_retries
                         THEN Append(@, RetryDelayOf(retry_count[w] + 1)) ELSE @]

\* variant: the retry test lets one more retry through
SE_CountError_OneMoreRetry(w) ==
    /\ se_pc[w] = "err"
    /\ error_counts' = [error_counts EXCEPT ![se_ctx[w]] = @ + 1]
    /\ total_retries' = total_retries + 1
    /\ retry_count' = [retry_count EXCEPT ![w] = @ + 1]
    /\ se_pc' = [se_pc EXCEPT ![w] =
                   IF retry_count[w] <= max_retries THEN "call" ELSE "exhausted"]
    /\ UNCHANGED <<total_failures, total_successes, se_ctx, last_error, se_val,
                   se_result, se_ncall, se_nfail, se_last, se_snap, se_solo, se_calls>>
    /\ UNCHANGED max_retries
    /\ UNCHANGED se_failed_attempts
    /\ se_sleeps' = [se_sleeps EXCEPT ![w] =
                       IF retry_count[w] <= max_retries
                         THEN Append(@, RetryDelayOf(retry_count[w] + 1)) ELSE @]

\* variant: the retry test is retry_count < max_retries
SE_CountError_StrictBound(w) ==
    /\ se_pc[w] = "err"
    /\ error_counts' = [error_counts EXCEPT ![se_ctx[w]] = @ + 1]
    /\ total_retries' = total_retries + 1
    /\ retry_count' = [retry_count EXCEPT ![w] = @ + 1]
    /\ se_pc' = [se_pc EXCEPT ![w] =
                   IF retry_count[w] + 1 < max_retries THEN "call" ELSE "exhausted"]
    /\ UNCHANGED <<total_failures, total_successes, se_ctx, last_error, se_val,
                   se_result, se_ncall, se_nfail, se_last, se_snap, se_solo, se_calls>>
    /\ UNCHANGED max_retries
    /\ UNCHANGED se_failed_attempts
    /\ se_sleeps' = [se_sleeps EXCEPT ![w] =
                       IF retry_count[w] + 1 < max_retries
                         THEN Append(@, RetryDelayOf(retry_count[w] + 1)) ELSE @]

\* Err arm: error_counts[ctx] += 1; total_retries += 1; retry_count += 1;
\* retry (after the sleep) while retry_count <= max_retries
SE_CountError(w) ==
    /\ se_pc[w] = "err"
    /\ error_counts' = [error_counts EXCEPT ![se_ctx[w]] = @ + 1]
    /\ total_retries' = total_retries + 1
    /\ retry_count' = [retry_count EXCEPT ![w] = @ + 1]
    /\ se_pc' = [se_pc EXCEPT ![w] =
                   IF retry_count[w] + 1 <= max_retries THEN "call" ELSE "exhausted"]
    /\ UNCHANGED <<total_failures, total_successes, se_ctx, last_error, se_val,
                   se_result, se_ncall, se_nfail, se_last, se_snap, se_solo, se_calls>>
    /\ UNCHANGED max_retries
    /\ UNCHANGED se_failed_attempts
    /\ se_sleeps' = [se_sleeps EXCEPT ![w] =
                       IF retry_count[w] + 1 <= max_retries
                         THEN Append(@, RetryDelayOf(retry_count[w] + 1)) ELSE @]

\* retries exhausted: counters.total_failures += 1; return Err("{ctx}: {last_error}")
SE_CountFailure(w) ==
    /\ se_pc[w] = "exhausted"
    /\ total_failures' = total_failures + 1
    /\ se_result' = [se_result EXCEPT ![w] = Err(CompositeError(se_ctx[w], last_error[w]))]
    /\ se_pc' = [se_pc EXCEPT ![w] = "done"]
    /\ UNCHANGED <<error_counts, total_retries, total_successes, se_ctx, retry_count,
                   last_error, se_val, se_ncall, se_nfail, se_last, se_snap, se_solo, se_calls>>
    /\ UNCHANGED max_retries
    /\ UNCHANGED se_failed_attempts
    /\ UNCHANGED se_sleeps

\* the caller takes the result; the worker is free for its next call
SE_Return(w) ==
    /\ se_pc[w] = "done"
    /\ se_pc' = [se_pc EXCEPT ![w] = "idle"]
    /\ se_ctx' = [se_ctx EXCEPT ![w] = <<>>]
    /\ retry_count' = [retry_count EXCEPT ![w] = 0]
    /\ last_error' = [last_error EXCEPT ![w] = NoError]
    /\ se_val' = [se_val EXCEPT ![w] = None]
    /\ se_result' = [se_result EXCEPT ![w] = NoResult]
    /\ se_ncall' = [se_ncall EXCEPT ![w] = 0]
    /\ se_nfail' = [se_nfail EXCEPT ![w] = 0]
    /\ se_last' = [se_last EXCEPT ![w] = NoResult]
    /\ se_snap' = [se_snap EXCEPT ![w] = ZeroCounters]
    /\ se_solo' = [se_solo EXCEPT ![w] = TRUE]
    /\ UNCHANGED <<error_counts, total_retries, total_failures, total_successes, se_calls>>
    /\ UNCHANGED max_retries
    /\ UNCHANGED se_failed_attempts
    /\ se_sleeps' = [se_sleeps EXCEPT ![w] = <<>>]

(***************************************************************************)
(* File processor and resume ledger (processing/file_processor.rs), driven *)
(* by the controller (controller.rs).                                      *)
(***************************************************************************)
VARIABLES
    \* the file system: existing paths, audio duration per stem, written outputs
    exists, ext_of, dur, out_texts, manifests,
    \* FileProcessor.processed_audio and the record file on disk
    processed_audio, record_file,
    \* the two interrupt flags
    ctrl_interrupt_flag, fp_interrupt_flag,
    \* one process_file call
    pf_pc, pf_file, pf_audio, pf_result, pf_duration, pf_segments, pf_pending,
    pf_i, pf_total_parts, pf_part_segments, pf_results, pf_text,
    \* what the current process_file call has done so far
    pf_entry, pf_skipped, pf_started, pf_finished, pf_dispatched, pf_manifest_emits,
    \* retry_failed_segments has been called after the latest first pass
    pf_retried,
    \* the number of segments dispatched by the latest process_file call of the
    \* current iteration of process_existing_files, kept until update_stats
    file_segments,
    \* ProcessorController: process_existing_files and ProcessingStats
    run_pc, media_files, file_idx, stats, run_no,
    \* ProcessorController.temp_dir: does the directory exist
    temp_dir,
    \* failures injected so far (failed steps and crashes)
    faults

fsVars == <<exists, ext_of, dur, out_texts, manifests>>
ledgerVars == <<processed_audio, record_file>>
flagVars == <<ctrl_interrupt_flag, fp_interrupt_flag>>
pfVars == <<pf_pc, pf_file, pf_audio, pf_result, pf_duration, pf_segments, pf_pending,
            pf_i, pf_total_parts, pf_part_segments, pf_results, pf_text>>
pfHist == <<pf_entry, pf_skipped, pf_started, pf_finished, pf_dispatched, pf_manifest_emits, pf_retried,
           file_segments>>
runVars == <<run_pc, media_files, file_idx, stats, run_no, temp_dir>>
procVars == <<fsVars, ledgerVars, flagVars, pfVars, pfHist, runVars, faults>>

\* the file watcher (FileWatcher and its deferred tasks)
VARIABLES
    \* the clock (seconds) and, per watched path, whether the file exists
    now, path_exists,
    \* FileWatcher.pending_files (path -> Instant) and .processed_files
    pending_files, processed_files,
    \* the event loop: position in handle_file_event and the event it handles
    h_pc, h_ev,
    \* the deferred tasks, one per event: position and end of the current sleep
    task_pc, task_wake,
    \* events received so far, their arrival times, and the tasks that called
    \* process_file, in call order
    ev_count, ev_time, dispatched_by,
    \* the path of each event, and the ASR calls in flight for the process_file
    \* call of each task
    ev_path, asr_calls

watchVars == <<now, path_exists, pending_files, processed_files, h_pc, h_ev,
               task_pc, task_wake, ev_count, ev_time, dispatched_by, ev_path,
               asr_calls>>

\* the partition of one audio file into parts (PartManager, as used by
\* process_large_audio_file): duration and part length, number of parts, and
\* the time ranges obtained so far
VARIABLES pm_pc, pm_duration, pm_part_seconds, pm_total_parts, pm_ranges

partVars == <<pm_pc, pm_duration, pm_part_seconds, pm_total_parts, pm_ranges>>

\* the ASR Backend Registry (AsrManager): per backend the availability flag,
\* the usage count, the success count and the current run of consecutive
\* failures; per worker the backend of its call in flight; and the log of the
\* selections made so far, each with the availability flags it saw
VARIABLES asr_available, asr_count, asr_success, asr_consecutive_failures,
          asr_call, asr_log

asrVars == <<asr_available, asr_count, asr_success, asr_consecutive_failures,
             asr_call, asr_log>>

\* the assembly of a text: position, the segments handed to the pool, those
\* that ended without a result, the segments transcribed in the order in which
\* their results arrived, and the assembled text
VARIABLES tx_pc, tx_segments, tx_failed, tx_order, tx_text

textVars == <<tx_pc, tx_segments, tx_failed, tx_order, tx_text>>

\* the life cycle of a FileWatcher: the watcher instance is held, the running
\* flag, and the results of the start and stop calls made so far
VARIABLES watcher, watcher_running, lc_log

lcVars == <<watcher, watcher_running, lc_log>>

\* bounds of the processing model
MaxRuns == 2
MaxFaults == 2
RunMaxRetries == 1
MaxPartTimeCfg == 1

\* FileProcessor.max_part_time (minutes), as configured
max_part_time == MaxPartTimeCfg
\* seconds of audio per segment produced by the splitter
SegmentSeconds == 30
\* audio durations (seconds) a file of the model may have
Durations == {0, max_part_time * 60, max_part_time * 60 + SegmentSeconds}

\* the thread of the controller that runs process_existing_files
Main == 1

\* paths are <<folder, stem, extension>>; NoPath is Option::None
NoPath == <<>>
MediaPath(st) == <<"media", st, ext_of[st]>>
file_stem(path) == path[2]
extension(path) == path[3]
file_name(path) == <<path[2], ".", path[3]>>
\* output_folder.join(format!("{}.mp3", base_name))
OutputAudioPath(st) == <<"out", st, "mp3">>
\* the paths that can be keys of processed_audio
KeySpace == {<<"media", st, "mp3">> : st \in Stems} \cup {OutputAudioPath(st) : st \in Stems}

\* Path::canonicalize().ok(): the path of an existing file, None otherwise
canonicalize(path) == IF path \in exists THEN path ELSE NoPath

\* FileRecord; NoRecord marks a key that is not in the map
NoRecord == [present |-> FALSE, processed_parts |-> {}, total_parts |-> 0, completed |-> FALSE]
\* FileRecord::default()
DefaultRecord == [present |-> TRUE, processed_parts |-> {}, total_parts |-> 0, completed |-> FALSE]
EmptyLedger == [k \in KeySpace |-> NoRecord]
Keys(ledger) == {k \in KeySpace : ledger[k].present}

\* the record file processed_audio_files.json: missing, or a JSON document
MissingFile == [state |-> "missing", doc |-> EmptyLedger]
\* the record file exists and is not a JSON document of the ledger
UnparsableFile == [state |-> "unparsable", doc |-> EmptyLedger]
\* save_json_file: the document written for a ledger
save_json_file(ledger) == [state |-> "json", doc |-> ledger]
\* load_json_file: the map of a JSON document, an empty map for a missing
\* file, an error for anything else
load_json_file(file) ==
    CASE file.state = "json" -> Ok(file.doc)
      [] file.state = "missing" -> Ok(EmptyLedger)
      [] OTHER -> Err(<<"parse error">>)
\* Result::unwrap_or_default on a ledger
unwrap_or_default(r) == IF IsOk(r) THEN r.val ELSE EmptyLedger
\* the ledger a FileProcessor constructed now would start with
PersistedLedger == unwrap_or_default(load_json_file(record_file))

\* the extract_audio_only option (off by default)
extract_audio_only == FALSE

\* video_extensions with process_video = true
video_extensions == {"mp4", "mov", "avi"}

\* FileProcessor::is_recognized_file
is_recognized_file(filepath) ==
    LET audio_path == OutputAudioPath(file_stem(filepath))
    IN \E key \in Keys(processed_audio) : canonicalize(key) = canonicalize(audio_path)

CeilDiv(a, b) == (a + b - 1) \div b

\* split_audio_file: the segments of the whole file, numbered from 0
SegmentsOf(d) == 0..(CeilDiv(d, SegmentSeconds) - 1)

\* PartManager: number of parts, time range of a part, pending parts,
\* segments of a part
PartSeconds == max_part_time * 60
\* parts of an audio of duration d with parts of length m, and the time range
\* of a part
PartCount(d, m) == CeilDiv(d, m)
PartRange(part_idx, m) == <<part_idx * m, (part_idx + 1) * m>>
TotalParts(d) == PartCount(d, PartSeconds)
get_part_time_range(part_idx) == PartRange(part_idx, PartSeconds)
get_segments_for_part(part_idx, segs) ==
    {sg \in segs : /\ sg * SegmentSeconds >= get_part_time_range(part_idx)[1]
                   /\ sg * SegmentSeconds < get_part_time_range(part_idx)[2]}

\* a set of naturals as the ascending sequence of its elements
RECURSIVE SortedSeq(_)
SortedSeq(S) ==
    IF S = {} THEN <<>>
    ELSE LET m == CHOOSE x \in S : \A y \in S : x <= y
         IN <<m>> \o SortedSeq(S \ {m})

\* PartManager::get_parts_for_audio: the record of the file (created on the
\* first encounter) and its pending parts in ascending order
RecordForAudio(ledger, key, d) ==
    IF ledger[key].present /\ ledger[key].total_parts > 0 THEN ledger[key]
    ELSE [present |-> TRUE, processed_parts |-> {},
          total_parts |-> TotalParts(d), completed |-> FALSE]
PendingParts(rec) == SortedSeq((0..(rec.total_parts - 1)) \ rec.processed_parts)

\* PartManager::save_part_text on the record: the part is marked complete, and
\* the record completed once every part is
MarkPartComplete(rec, part_idx) ==
    LET parts == rec.processed_parts \cup {part_idx}
    IN [rec EXCEPT !.processed_parts = parts,
                   !.completed = ((0..(rec.total_parts - 1)) \subseteq parts)]

\* TextProcessor::prepare_result_text: the texts of the transcribed segments
\* in segment order; empty when no segment was transcribed
prepare_result_text(segs, results) == SortedSeq(segs \cap results)

\* the key of processed_audio under which process_file(filepath) records its audio
AudioKeyOf(filepath) ==
    IF extension(filepath) = "mp3" THEN filepath ELSE OutputAudioPath(file_stem(filepath))

NoStats ==
    [total_files |-> 0, processed_files |-> 0, successful_files |-> 0, failed_files |-> 0,
     total_segments |-> 0, successful_segments |-> 0, failed_segments |-> 0]

\* FileProcessor::new (ledger loaded from the record file, own interrupt flag
\* false) and ProcessorController::new (its interrupt flag false), before any
\* file is processed
PfIdle ==
    /\ pf_pc = "idle"
    /\ pf_file = NoPath
    /\ pf_audio = NoPath
    /\ pf_result = NoResult
    /\ pf_duration = 0
    /\ pf_segments = {}
    /\ pf_pending = <<>>
    /\ pf_i = 1
    /\ pf_total_parts = 0
    /\ pf_part_segments = {}
    /\ pf_results = {}
    /\ pf_text = <<>>
    /\ pf_entry = NoRecord
    /\ pf_skipped = FALSE
    /\ pf_started = {}
    /\ pf_finished = {}
    /\ pf_dispatched = {}
    /\ pf_manifest_emits = 0
    /\ pf_retried = FALSE
    /\ file_segments = 0

\* the locals of process_file are dropped when it returns
PfReset ==
    /\ pf_pc' = "idle"
    /\ pf_file' = NoPath
    /\ pf_audio' = NoPath
    /\ pf_result' = NoResult
    /\ pf_duration' = 0
    /\ pf_segments' = {}
    /\ pf_pending' = <<>>
    /\ pf_i' = 1
    /\ pf_total_parts' = 0
    /\ pf_part_segments' = {}
    /\ pf_results' = {}
    /\ pf_text' = <<>>
    /\ pf_entry' = NoRecord
    /\ pf_skipped' = FALSE
    /\ pf_started' = {}
    /\ pf_finished' = {}
    /\ pf_dispatched' = {}
    /\ pf_manifest_emits' = 0
    /\ pf_retried' = FALSE

ProcInit ==
    /\ ext_of \in [Stems -> MediaExts]
    /\ dur \in [Stems -> Durations]
    /\ exists = {MediaPath(st) : st \in Stems}
    /\ out_texts = {}
    /\ manifests = {}
    /\ record_file = MissingFile
    /\ processed_audio = PersistedLedger
    /\ ctrl_interrupt_flag = FALSE
    /\ fp_interrupt_flag = FALSE
    /\ PfIdle
    /\ run_pc = "scan"
    /\ media_files = <<>>
    /\ file_idx = 1
    /\ stats = NoStats
    /\ run_no = 1
    /\ temp_dir = TRUE
    /\ faults = 0

\* a fallible step may fail while the failure budget of the model lasts
FailChoices == IF faults < MaxFaults THEN BOOLEAN ELSE {FALSE}
Outcomes(failures, success) == IF faults < MaxFaults THEN failures \cup {success} ELSE {success}
Failing(fail) == faults' = IF fail THEN faults + 1 ELSE faults

\* process_file returns r
PfReturn(r) ==
    /\ pf_result' = r
    /\ pf_pc' = "ret"

\* process_file goes on at the step next
PfGoto(next) ==
    /\ pf_pc' = next
    /\ UNCHANGED pf_result

\* the current part of the multi-part loop
CurPart == pf_pending[pf_i]

\* FileProcessor::process_file, up to the dispatch on the file type
PF_Classify ==
    /\ pf_pc = "start"
    /\ IF is_recognized_file(pf_file)
         THEN /\ PfReturn(Ok(TRUE))
              /\ pf_skipped' = TRUE
              /\ UNCHANGED pf_audio
         ELSE /\ pf_skipped' = FALSE
              /\ IF extension(pf_file) \in video_extensions
                   THEN PfGoto("video") /\ UNCHANGED pf_audio
                   ELSE IF extension(pf_file) = "mp3"
                          THEN PfGoto("audio") /\ pf_audio' = pf_file
                          ELSE PfReturn(Ok(FALSE)) /\ UNCHANGED pf_audio
    /\ UNCHANGED <<fsVars, ledgerVars, flagVars, pf_file, pf_duration, pf_segments,
                   pf_pending, pf_i, pf_total_parts, pf_part_segments, pf_results, pf_text,
                   pf_entry, file_segments, pf_started, pf_finished, pf_dispatched, pf_manifest_emits, pf_retried>>
    /\ UNCHANGED <<retryVars, watchVars, partVars, asrVars, textVars, lcVars, runVars, faults>>

\* FileProcessor::process_video_file: extract the audio into the output folder
PF_ExtractAudio ==
    /\ pf_pc = "video"
    /\ \E outcome \in Outcomes({"err", "none"}, "audio") :
         /\ Failing(outcome # "audio")
         /\ CASE outcome = "err" ->
                   /\ PfReturn(Err(<<"extract audio">>))
                   /\ UNCHANGED <<exists, pf_audio>>
              [] outcome = "none" ->
                   /\ PfReturn(Ok(FALSE))
                   /\ UNCHANGED <<exists, pf_audio>>
              [] outcome = "audio" ->
                   /\ exists' = exists \cup {OutputAudioPath(file_stem(pf_file))}
                   /\ pf_audio' = OutputAudioPath(file_stem(pf_file))
                   /\ IF extract_audio_only THEN PfReturn(Ok(TRUE)) ELSE PfGoto("audio")
    /\ UNCHANGED <<ext_of, dur, out_texts, manifests, ledgerVars, flagVars, pf_file,
                   pf_duration, pf_segments, pf_pending, pf_i, pf_total_parts,
                   pf_part_segments, pf_results, pf_text, pfHist>>
    /\ UNCHANGED <<retryVars, watchVars, partVars, asrVars, textVars, lcVars, runVars>>

\* variant: a file of exactly max_part_time minutes is treated as a large file
PF_GetDuration_BoundaryIsLarge ==
    /\ pf_pc = "audio"
    /\ \E fail \in FailChoices :
         /\ Failing(fail)
         /\ IF fail \/ pf_audio \notin exists
              THEN PfReturn(Err(<<"duration">>)) /\ UNCHANGED pf_duration
              ELSE LET audio_duration == dur[file_stem(pf_audio)] IN
                     /\ pf_duration' = audio_duration
                     /\ IF audio_duration <= 0
                          THEN PfReturn(Ok(FALSE))
                          ELSE IF audio_duration >= max_part_time * 60
                                 THEN PfGoto("large")
                                 ELSE PfGoto("split")
    /\ UNCHANGED <<fsVars, ledgerVars, flagVars, pf_file, pf_audio, pf_segments,
                   pf_pending, pf_i, pf_total_parts, pf_part_segments, pf_results,
                   pf_text, pfHist>>
    /\ UNCHANGED <<retryVars, watchVars, partVars, asrVars, textVars, lcVars, runVars>>

\* FileProcessor::process_audio_file: duration query and choice of the path
PF_GetDuration ==
    /\ pf_pc = "audio"
    /\ \E fail \in FailChoices :
         /\ Failing(fail)
         /\ IF fail \/ pf_audio \notin exists
              THEN PfReturn(Err(<<"duration">>)) /\ UNCHANGED pf_duration
              ELSE LET audio_duration == dur[file_stem(pf_audio)] IN
                     /\ pf_duration' = audio_duration
                     /\ IF audio_duration <= 0
                          THEN PfReturn(Ok(FALSE))
                          ELSE IF audio_duration > max_part_time * 60
                                 THEN PfGoto("large")
                                 ELSE PfGoto("split")
    /\ UNCHANGED <<fsVars, ledgerVars, flagVars, pf_file, pf_audio, pf_segments,
                   pf_pending, pf_i, pf_total_parts, pf_part_segments, pf_results,
                   pf_text, pfHist>>
    /\ UNCHANGED <<retryVars, watchVars, partVars, asrVars, textVars, lcVars, runVars>>

\* split_audio_file: Err, no segment, or the segments of the file
SplitAudio(next) ==
    /\ \E outcome \in Outcomes({"err", "empty"}, "segments") :
         /\ Failing(outcome # "segments")
         /\ CASE outcome = "err" ->
                   PfReturn(Err(<<"split">>)) /\ UNCHANGED pf_segments
              [] outcome = "empty" ->
                   PfReturn(Ok(FALSE)) /\ UNCHANGED pf_segments
              [] outcome = "segments" ->
                   PfGoto(next) /\ pf_segments' = SegmentsOf(pf_duration)
    /\ UNCHANGED <<fsVars, ledgerVars, flagVars, pf_file, pf_audio, pf_duration,
                   pf_pending, pf_i, pf_total_parts, pf_part_segments, pf_results,
                   pf_text, pfHist>>
    /\ UNCHANGED <<retryVars, watchVars, partVars, asrVars, textVars, lcVars, runVars>>

PF_Split ==
    /\ pf_pc = "split"
    /\ SplitAudio("transcribe")

\* TranscriptionProcessor::process_audio_segments on segs: Err, or the set of
\* segments transcribed; once the interrupt flag of the pool is set nothing
\* more is submitted
ProcessAudioSegments(segs, next) ==
    \E fail \in FailChoices :
        /\ Failing(fail)
        /\ pf_retried' = FALSE
        /\ IF fail
             THEN PfReturn(Err(<<"transcribe">>)) /\ UNCHANGED <<pf_results, pf_dispatched, file_segments>>
             ELSE /\ IF ctrl_interrupt_flag
                       THEN pf_results' = {} /\ UNCHANGED <<pf_dispatched, file_segments>>
                       ELSE /\ pf_results' \in SUBSET segs
                            /\ pf_dispatched' = pf_dispatched \cup segs
                            /\ file_segments' = file_segments + Cardinality(segs)
                  /\ PfGoto(next)

\* retry_failed_segments, called only when the first pass returned something:
\* the missing segments are run again and the new successes merged
RetryFailedSegments(segs, next) ==
    IF pf_results # {}
      THEN \E fail \in FailChoices :
             /\ Failing(fail)
             /\ pf_retried' = TRUE
             /\ IF fail
                  THEN PfReturn(Err(<<"retry segments">>)) /\ UNCHANGED pf_results
                  ELSE /\ IF ctrl_interrupt_flag
                            THEN UNCHANGED pf_results
                            ELSE \E more \in SUBSET (segs \ pf_results) :
                                     pf_results' = pf_results \cup more
                       /\ PfGoto(next)
      ELSE /\ pf_results' = {}
           /\ PfGoto(next)
           /\ UNCHANGED <<faults, pf_retried>>

PF_Transcribe ==
    /\ pf_pc = "transcribe"
    /\ ProcessAudioSegments(pf_segments, "retry")
    /\ UNCHANGED <<fsVars, ledgerVars, flagVars, pf_file, pf_audio, pf_duration,
                   pf_segments, pf_pending, pf_i, pf_total_parts, pf_part_segments,
                   pf_text, pf_entry, pf_skipped, pf_started, pf_finished,
                   pf_manifest_emits>>
    /\ UNCHANGED <<retryVars, watchVars, partVars, asrVars, textVars, lcVars, runVars>>

PF_Retry ==
    /\ pf_pc = "retry"
    /\ RetryFailedSegments(pf_segments, "text")
    /\ UNCHANGED <<fsVars, ledgerVars, flagVars, pf_file, pf_audio, pf_duration,
                   pf_segments, pf_pending, pf_i, pf_total_parts, pf_part_segments,
                   pf_text, pf_entry, file_segments, pf_skipped, pf_started, pf_finished,
                   pf_dispatched, pf_manifest_emits>>
    /\ UNCHANGED <<retryVars, watchVars, partVars, asrVars, textVars, lcVars, runVars>>

\* variant: the audio of a file without usable text is deleted before the return
PF_PrepareText_DeleteOnEmpty ==
    /\ pf_pc = "text"
    /\ \E fail \in FailChoices :
         /\ Failing(fail)
         /\ IF fail
              THEN PfReturn(Err(<<"prepare text">>)) /\ UNCHANGED <<pf_text, exists>>
              ELSE LET result_text == prepare_result_text(pf_segments, pf_results) IN
                     /\ pf_text' = result_text
                     /\ IF result_text = <<>>
                          THEN PfReturn(Ok(FALSE)) /\ exists' = exists \ {pf_audio}
                          ELSE PfGoto("save_text") /\ UNCHANGED exists
    /\ UNCHANGED <<ext_of, dur, out_texts, manifests, ledgerVars, flagVars, pf_file, pf_audio,
                   pf_duration, pf_segments, pf_pending, pf_i, pf_total_parts, pf_part_segments,
                   pf_results, pfHist>>
    /\ UNCHANGED <<retryVars, watchVars, partVars, asrVars, textVars, lcVars, runVars>>

\* prepare_result_text followed by `?`; an empty text ends the file with Ok(false)
PF_PrepareText ==
    /\ pf_pc = "text"
    /\ \E fail \in FailChoices :
         /\ Failing(fail)
         /\ IF fail
              THEN PfReturn(Err(<<"prepare text">>)) /\ UNCHANGED pf_text
              ELSE LET result_text == prepare_result_text(pf_segments, pf_results) IN
                     /\ pf_text' = result_text
                     /\ IF result_text = <<>>
                          THEN PfReturn(Ok(FALSE))
                          ELSE PfGoto("save_text")
    /\ UNCHANGED <<fsVars, ledgerVars, flagVars, pf_file, pf_audio, pf_duration,
                   pf_segments, pf_pending, pf_i, pf_total_parts, pf_part_segments,
                   pf_results, pfHist>>
    /\ UNCHANGED <<retryVars, watchVars, partVars, asrVars, textVars, lcVars, runVars>>

\* save_result_text: the output text file of the audio
PF_SaveText ==
    /\ pf_pc = "save_text"
    /\ \E fail \in FailChoices :
         /\ Failing(fail)
         /\ IF fail
              THEN PfReturn(Err(<<"save text">>)) /\ UNCHANGED out_texts
              ELSE /\ out_texts' = out_texts \cup {<<file_stem(pf_audio), "all">>}
                   /\ PfGoto("record")
    /\ UNCHANGED <<exists, ext_of, dur, manifests, ledgerVars, flagVars, pf_file,
                   pf_audio, pf_duration, pf_segments, pf_pending, pf_i, pf_total_parts,
                   pf_part_segments, pf_results, pf_text, pfHist>>
    /\ UNCHANGED <<retryVars, watchVars, partVars, asrVars, textVars, lcVars, runVars>>

\* the record of the audio is inserted if it is missing (in memory)
PF_UpdateRecord ==
    /\ pf_pc = "record"
    /\ processed_audio' =
         IF ~processed_audio[pf_audio].present
           THEN [processed_audio EXCEPT ![pf_audio] = DefaultRecord]
           ELSE processed_audio
    /\ PfGoto("persist")
    /\ UNCHANGED <<fsVars, record_file, flagVars, pf_file, pf_audio,
                   pf_duration, pf_segments, pf_pending, pf_i, pf_total_parts,
                   pf_part_segments, pf_results, pf_text, pfHist>>
    /\ UNCHANGED <<retryVars, watchVars, partVars, asrVars, textVars, lcVars, runVars, faults>>

\* variant: only the record of the current audio is written to the record file
SaveProcessedRecords_CurrentOnly(fail) ==
    /\ Failing(fail)
    /\ IF fail
         THEN PfReturn(Err(<<"save records">>)) /\ UNCHANGED record_file
         ELSE record_file' = save_json_file(
                  [EmptyLedger EXCEPT ![pf_audio] = processed_audio[pf_audio]])

\* FileProcessor::save_processed_records followed by `?`: Err returns from
\* process_file, otherwise the ledger is on disk
SaveProcessedRecords(fail) ==
    /\ Failing(fail)
    /\ IF fail
         THEN PfReturn(Err(<<"save records">>)) /\ UNCHANGED record_file
         ELSE record_file' = save_json_file(processed_audio)

\* variant: a failed write of the records is ignored and the path goes on to
\* the removal of the audio file
PF_Persist_IgnoreError ==
    /\ pf_pc = "persist"
    /\ \E fail \in FailChoices :
         /\ Failing(fail)
         /\ record_file' = IF fail THEN record_file ELSE save_json_file(processed_audio)
         /\ PfGoto("delete_audio")
    /\ UNCHANGED <<fsVars, processed_audio, flagVars, pf_file, pf_audio, pf_duration,
                   pf_segments, pf_pending, pf_i, pf_total_parts, pf_part_segments,
                   pf_results, pf_text, pfHist>>
    /\ UNCHANGED <<retryVars, watchVars, partVars, asrVars, textVars, lcVars, runVars>>

\* self.save_processed_records()? of the single-pass path
PF_Persist ==
    /\ pf_pc = "persist"
    /\ \E fail \in FailChoices :
         /\ SaveProcessedRecords(fail)
         /\ ~fail => PfGoto("delete_audio")
    /\ UNCHANGED <<fsVars, processed_audio, flagVars, pf_file, pf_audio, pf_duration,
                   pf_segments, pf_pending, pf_i, pf_total_parts, pf_part_segments,
                   pf_results, pf_text, pfHist>>
    /\ UNCHANGED <<retryVars, watchVars, partVars, asrVars, textVars, lcVars, runVars>>

\* the audio file is removed and the file is Done
PF_DeleteAudio ==
    /\ pf_pc = "delete_audio"
    /\ IF pf_audio \in exists
         THEN \E fail \in FailChoices :
                /\ Failing(fail)
                /\ IF fail
                     THEN PfReturn(Err(<<"remove file">>)) /\ UNCHANGED exists
                     ELSE PfReturn(Ok(TRUE)) /\ exists' = exists \ {pf_audio}
         ELSE PfReturn(Ok(TRUE)) /\ UNCHANGED <<exists, faults>>
    /\ UNCHANGED <<ext_of, dur, out_texts, manifests, ledgerVars, flagVars, pf_file,
                   pf_audio, pf_duration, pf_segments, pf_pending, pf_i, pf_total_parts,
                   pf_part_segments, pf_results, pf_text, pfHist>>
    /\ UNCHANGED <<retryVars, watchVars, partVars, asrVars, textVars, lcVars, runVars>>

\* process_large_audio_file: PartManager::get_parts_for_audio under the lock
PF_GetParts ==
    /\ pf_pc = "large"
    /\ LET file_record == RecordForAudio(processed_audio, pf_audio, pf_duration)
           pending_parts == PendingParts(file_record)
       IN /\ processed_audio' = [processed_audio EXCEPT ![pf_audio] = file_record]
          /\ pf_total_parts' = file_record.total_parts
          /\ pf_pending' = pending_parts
          /\ pf_i' = 1
          /\ IF pending_parts = <<>> THEN PfGoto("index_done") ELSE PfGoto("large_split")
    /\ UNCHANGED <<fsVars, record_file, flagVars, pf_file, pf_audio,
                   pf_duration, pf_segments, pf_part_segments, pf_results, pf_text,
                   pfHist>>
    /\ UNCHANGED <<retryVars, watchVars, partVars, asrVars, textVars, lcVars, runVars, faults>>

\* PartManager::create_index_file followed by `?`: Err, or the manifest is
\* (re)written
CreateIndexFile(next) ==
    \E fail \in FailChoices :
        /\ Failing(fail)
        /\ IF fail
             THEN PfReturn(Err(<<"index file">>)) /\ UNCHANGED <<manifests, pf_manifest_emits>>
             ELSE /\ manifests' = manifests \cup {file_stem(pf_audio)}
                  /\ pf_manifest_emits' = pf_manifest_emits + 1
                  /\ PfGoto(next)

\* variant: with no part pending the call finishes without (re)creating the
\* index file
PF_IndexAllDone_NoIndex ==
    /\ pf_pc = "index_done"
    /\ PfGoto("persist_done")
    /\ UNCHANGED <<fsVars, ledgerVars, flagVars, pf_file, pf_audio, pf_duration,
                   pf_segments, pf_pending, pf_i, pf_total_parts, pf_part_segments,
                   pf_results, pf_text, pfHist>>
    /\ UNCHANGED <<retryVars, watchVars, partVars, asrVars, textVars, lcVars, runVars, faults>>

\* no part pending: the index file is created ...
PF_IndexAllDone ==
    /\ pf_pc = "index_done"
    /\ CreateIndexFile("persist_done")
    /\ UNCHANGED <<exists, ext_of, dur, out_texts, ledgerVars, flagVars, pf_file,
                   pf_audio, pf_duration, pf_segments, pf_pending, pf_i, pf_total_parts,
                   pf_part_segments, pf_results, pf_text, pf_entry, file_segments, pf_skipped,
                   pf_started, pf_finished, pf_dispatched, pf_retried>>
    /\ UNCHANGED <<retryVars, watchVars, partVars, asrVars, textVars, lcVars, runVars>>

\* ... and the records saved
PF_PersistAllDone ==
    /\ pf_pc = "persist_done"
    /\ \E fail \in FailChoices :
         /\ SaveProcessedRecords(fail)
         /\ ~fail => PfReturn(Ok(TRUE))
    /\ UNCHANGED <<fsVars, processed_audio, flagVars, pf_file, pf_audio, pf_duration,
                   pf_segments, pf_pending, pf_i, pf_total_parts, pf_part_segments,
                   pf_results, pf_text, pfHist>>
    /\ UNCHANGED <<retryVars, watchVars, partVars, asrVars, textVars, lcVars, runVars>>

PF_LargeSplit ==
    /\ pf_pc = "large_split"
    /\ SplitAudio("loop")

\* head of the loop over the pending parts: the interrupt check on the flag
\* of the FileProcessor, then the segments of the part
PF_LoopCheck ==
    /\ pf_pc = "loop"
    /\ IF pf_i > Len(pf_pending) \/ fp_interrupt_flag
         THEN /\ PfGoto("check_completed")
              /\ UNCHANGED <<pf_part_segments, pf_started>>
         ELSE /\ pf_part_segments' = get_segments_for_part(CurPart, pf_segments)
              /\ pf_started' = pf_started \cup {CurPart}
              /\ PfGoto("part_transcribe")
    /\ UNCHANGED <<fsVars, ledgerVars, flagVars, pf_file, pf_audio,
                   pf_duration, pf_segments, pf_pending, pf_i, pf_total_parts,
                   pf_results, pf_text, pf_entry, file_segments, pf_skipped, pf_finished,
                   pf_dispatched, pf_manifest_emits, pf_retried>>
    /\ UNCHANGED <<retryVars, watchVars, partVars, asrVars, textVars, lcVars, runVars, faults>>

PF_PartTranscribe ==
    /\ pf_pc = "part_transcribe"
    /\ ProcessAudioSegments(pf_part_segments, "part_retry")
    /\ UNCHANGED <<fsVars, ledgerVars, flagVars, pf_file, pf_audio, pf_duration,
                   pf_segments, pf_pending, pf_i, pf_total_parts, pf_part_segments,
                   pf_text, pf_entry, pf_skipped, pf_started, pf_finished,
                   pf_manifest_emits>>
    /\ UNCHANGED <<retryVars, watchVars, partVars, asrVars, textVars, lcVars, runVars>>

PF_PartRetry ==
    /\ pf_pc = "part_retry"
    /\ RetryFailedSegments(pf_part_segments, "part_text")
    /\ UNCHANGED <<fsVars, ledgerVars, flagVars, pf_file, pf_audio, pf_duration,
                   pf_segments, pf_pending, pf_i, pf_total_parts, pf_part_segments,
                   pf_text, pf_entry, file_segments, pf_skipped, pf_started, pf_finished,
                   pf_dispatched, pf_manifest_emits>>
    /\ UNCHANGED <<retryVars, watchVars, partVars, asrVars, textVars, lcVars, runVars>>

\* the iteration of the current part ends; the loop goes to the next part
NextPart ==
    /\ pf_i' = pf_i + 1
    /\ pf_finished' = pf_finished \cup {CurPart}
    /\ pf_part_segments' = {}
    /\ pf_results' = {}
    /\ pf_text' = <<>>
    /\ PfGoto("loop")

\* the text of the part; a part without text is not saved and the loop goes on
PF_PartText ==
    /\ pf_pc = "part_text"
    /\ \E fail \in FailChoices :
         /\ Failing(fail)
         /\ IF fail
              THEN /\ PfReturn(Err(<<"prepare text">>))
                   /\ UNCHANGED <<pf_text, pf_i, pf_finished, pf_part_segments, pf_results>>
              ELSE LET part_text == prepare_result_text(pf_part_segments, pf_results) IN
                     IF part_text # <<>>
                       THEN /\ pf_text' = part_text
                            /\ PfGoto("save_part")
                            /\ UNCHANGED <<pf_i, pf_finished, pf_part_segments, pf_results>>
                       ELSE NextPart
    /\ UNCHANGED <<fsVars, ledgerVars, flagVars, pf_file, pf_audio,
                   pf_duration, pf_segments, pf_pending, pf_total_parts,
                   pf_entry, file_segments, pf_skipped, pf_started, pf_dispatched, pf_manifest_emits, pf_retried>>
    /\ UNCHANGED <<retryVars, watchVars, partVars, asrVars, textVars, lcVars, runVars>>

\* PartManager::save_part_text under the lock: the part file is written and
\* the part marked complete in memory
PF_SavePartText ==
    /\ pf_pc = "save_part"
    /\ \E fail \in FailChoices :
         /\ Failing(fail)
         /\ IF fail
              THEN PfReturn(Err(<<"save part">>)) /\ UNCHANGED <<out_texts, processed_audio>>
              ELSE /\ out_texts' = out_texts \cup {<<file_stem(pf_audio), CurPart>>}
                   /\ processed_audio' = [processed_audio EXCEPT
                                            ![pf_audio] = MarkPartComplete(@, CurPart)]
                   /\ PfGoto("persist_part")
    /\ UNCHANGED <<exists, ext_of, dur, manifests, record_file, flagVars, pf_file,
                   pf_audio, pf_duration, pf_segments, pf_pending, pf_i, pf_total_parts,
                   pf_part_segments, pf_results, pf_text, pfHist>>
    /\ UNCHANGED <<retryVars, watchVars, partVars, asrVars, textVars, lcVars, runVars>>

\* self.save_processed_records()? after the part: the checkpoint reaches the disk
PF_PersistPart ==
    /\ pf_pc = "persist_part"
    /\ \E fail \in FailChoices :
         /\ SaveProcessedRecords(fail)
         /\ IF fail
              THEN UNCHANGED <<pf_i, pf_finished, pf_part_segments, pf_results, pf_text>>
              ELSE NextPart
    /\ UNCHANGED <<fsVars, processed_audio, flagVars, pf_file, pf_audio, pf_duration,
                   pf_segments, pf_pending, pf_total_parts,
                   pf_entry, file_segments, pf_skipped, pf_started, pf_dispatched, pf_manifest_emits, pf_retried>>
    /\ UNCHANGED <<retryVars, watchVars, partVars, asrVars, textVars, lcVars, runVars>>

\* variant: the index file is created after the loop whether or not the record
\* of the file is completed
PF_CheckCompleted_AlwaysIndex ==
    /\ pf_pc = "check_completed"
    /\ LET file_record == IF processed_audio[pf_audio].present
                            THEN processed_audio[pf_audio] ELSE DefaultRecord
           is_completed == file_record.completed
       IN IF is_completed THEN PfGoto("index_final") ELSE PfGoto("index_final")
    /\ UNCHANGED <<fsVars, ledgerVars, flagVars, pf_file, pf_audio,
                   pf_duration, pf_segments, pf_pending, pf_i, pf_total_parts,
                   pf_part_segments, pf_results, pf_text, pfHist>>
    /\ UNCHANGED <<retryVars, watchVars, partVars, asrVars, textVars, lcVars, runVars, faults>>

\* after the loop: is the record of the file completed?
PF_CheckCompleted ==
    /\ pf_pc = "check_completed"
    /\ LET file_record == IF processed_audio[pf_audio].present
                            THEN processed_audio[pf_audio] ELSE DefaultRecord
           is_completed == file_record.completed
       IN IF is_completed THEN PfGoto("index_final") ELSE PfGoto("persist_final")
    /\ UNCHANGED <<fsVars, ledgerVars, flagVars, pf_file, pf_audio,
                   pf_duration, pf_segments, pf_pending, pf_i, pf_total_parts,
                   pf_part_segments, pf_results, pf_text, pfHist>>
    /\ UNCHANGED <<retryVars, watchVars, partVars, asrVars, textVars, lcVars, runVars, faults>>

PF_IndexFinal ==
    /\ pf_pc = "index_final"
    /\ CreateIndexFile("persist_final")
    /\ UNCHANGED <<exists, ext_of, dur, out_texts, ledgerVars, flagVars, pf_file,
                   pf_audio, pf_duration, pf_segments, pf_pending, pf_i, pf_total_parts,
                   pf_part_segments, pf_results, pf_text, pf_entry, file_segments, pf_skipped,
                   pf_started, pf_finished, pf_dispatched, pf_retried>>
    /\ UNCHANGED <<retryVars, watchVars, partVars, asrVars, textVars, lcVars, runVars>>

PF_PersistFinal ==
    /\ pf_pc = "persist_final"
    /\ \E fail \in FailChoices :
         /\ SaveProcessedRecords(fail)
         /\ ~fail => PfReturn(Ok(TRUE))
    /\ UNCHANGED <<fsVars, processed_audio, flagVars, pf_file, pf_audio, pf_duration,
                   pf_segments, pf_pending, pf_i, pf_total_parts, pf_part_segments,
                   pf_results, pf_text, pfHist>>
    /\ UNCHANGED <<retryVars, watchVars, partVars, asrVars, textVars, lcVars, runVars>>

(***************************************************************************)
(* ProcessorController: process_existing_files, the interrupt flag, and    *)
(* the restart of the program.                                             *)
(***************************************************************************)

\* the sequences that list the elements of S once each
RECURSIVE Orderings(_)
Orderings(S) ==
    IF S = {} THEN {<<>>}
    ELSE UNION {{<<x>> \o rest : rest \in Orderings(S \ {x})} : x \in S}

\* the files collected by process_existing_files: the mp3 files of the media
\* folder, then its videos, each group in directory order
CollectedFiles ==
    LET mp3s == {f \in exists : f[1] = "media" /\ extension(f) = "mp3"}
        videos == {f \in exists : f[1] = "media" /\ extension(f) \in video_extensions}
    IN {a \o b : a \in Orderings(mp3s), b \in Orderings(videos)}

\* ProcessorController::cleanup, called by start_processing once
\* process_existing_files has returned Ok: the temporary directory is removed
cleanup == temp_dir' = FALSE

Run_Scan ==
    /\ run_pc = "scan"
    /\ \E files \in CollectedFiles :
         /\ media_files' = files
         /\ IF files = <<>>
              THEN run_pc' = "done" /\ cleanup /\ UNCHANGED stats
              ELSE /\ run_pc' = "loop"
                   /\ stats' = [stats EXCEPT !.total_files = Len(files)]
                   /\ UNCHANGED temp_dir
    /\ file_idx' = 1
    /\ UNCHANGED <<retryVars, watchVars, partVars, asrVars, textVars, lcVars, fsVars, ledgerVars, flagVars, pfVars, pfHist, run_no, faults>>

\* error_handler.safe_execute(|| self.file_processor.process_file(filepath), ...)
Run_SafeExecute ==
    /\ run_pc = "loop"
    /\ file_idx <= Len(media_files)
    /\ SE_Start(Main, FileContext(file_name(media_files[file_idx])))
    /\ run_pc' = "safe_execute"
    /\ UNCHANGED <<watchVars, partVars, asrVars, textVars, lcVars, fsVars, ledgerVars, flagVars, pfVars, pfHist,
                   media_files, file_idx, stats, run_no, temp_dir, faults>>

\* safe_execute invokes the closure: process_file(filepath) starts
PF_Begin ==
    /\ run_pc = "safe_execute"
    /\ se_pc[Main] = "call"
    /\ pf_pc = "idle"
    /\ pf_pc' = "start"
    /\ pf_file' = media_files[file_idx]
    /\ pf_entry' = processed_audio[AudioKeyOf(media_files[file_idx])]
    /\ file_segments' = 0
    /\ UNCHANGED <<retryVars, watchVars, partVars, asrVars, textVars, lcVars, fsVars, ledgerVars, flagVars, pf_audio, pf_result,
                   pf_duration, pf_segments, pf_pending, pf_i, pf_total_parts,
                   pf_part_segments, pf_results, pf_text, pf_skipped, pf_started,
                   pf_finished, pf_dispatched, pf_manifest_emits, pf_retried, runVars, faults>>

\* process_file returns to safe_execute
PF_End ==
    /\ pf_pc = "ret"
    /\ SE_Call(Main, pf_result)
    /\ PfReset
    /\ UNCHANGED <<file_segments, watchVars, partVars, asrVars, textVars, lcVars, fsVars, ledgerVars, flagVars, runVars, faults>>

\* file_stats.get(key) ... .unwrap_or(default)
GetOr(file_stats, key, default) ==
    IF key \in DOMAIN file_stats THEN file_stats[key] ELSE default

\* a.saturating_sub(b)
saturating_sub(a, b) == IF a >= b THEN a - b ELSE 0

\* the map process_existing_files builds for update_stats: the one key "success"
FileStats(success) == [k \in {"success"} |-> success]

\* variant: a file that failed is counted as processed but not as failed
update_stats_FailedNotCounted(st, file_stats) ==
    LET total == GetOr(file_stats, "total_segments", 0)
        successful == GetOr(file_stats, "successful_segments", 0)
    IN [st EXCEPT !.processed_files = @ + 1,
                  !.successful_files = IF GetOr(file_stats, "success", FALSE) THEN @ + 1 ELSE @,
                  !.total_segments = @ + total,
                  !.successful_segments = @ + successful,
                  !.failed_segments = @ + saturating_sub(total, successful)]

\* ProcessorController::update_stats
update_stats(st, file_stats) ==
    LET total == GetOr(file_stats, "total_segments", 0)
        successful == GetOr(file_stats, "successful_segments", 0)
    IN [st EXCEPT !.processed_files = @ + 1,
                  !.successful_files = IF GetOr(file_stats, "success", FALSE) THEN @ + 1 ELSE @,
                  !.failed_files = IF GetOr(file_stats, "success", FALSE) THEN @ ELSE @ + 1,
                  !.total_segments = @ + total,
                  !.successful_segments = @ + successful,
                  !.failed_segments = @ + saturating_sub(total, successful)]

\* let success = safe_execute(...)?; update_stats; next file
Run_AfterFile ==
    /\ run_pc = "safe_execute"
    /\ se_pc[Main] = "done"
    /\ IF IsOk(se_result[Main])
         THEN /\ stats' = update_stats(stats, FileStats(se_result[Main].val))
              /\ file_idx' = file_idx + 1
              /\ run_pc' = "loop"
         ELSE /\ run_pc' = "aborted"
              /\ UNCHANGED <<stats, file_idx>>
    /\ SE_Return(Main)
    /\ file_segments' = 0
    /\ UNCHANGED <<watchVars, partVars, asrVars, textVars, lcVars, fsVars, ledgerVars, flagVars, pfVars, pf_entry,
                   pf_skipped, pf_started, pf_finished, pf_dispatched, pf_manifest_emits,
                   pf_retried, media_files, run_no, temp_dir, faults>>

\* end of the loop: process_existing_files returns Ok(()) and start_processing
\* goes on to cleanup
Run_Finish ==
    /\ run_pc = "loop"
    /\ file_idx > Len(media_files)
    /\ run_pc' = "done"
    /\ cleanup
    /\ UNCHANGED <<retryVars, watchVars, partVars, asrVars, textVars, lcVars, fsVars, ledgerVars, flagVars, pfVars, pfHist,
                   media_files, file_idx, stats, run_no, faults>>

\* ProcessorController::set_interrupt_flag(true), called by the signal handler
SetInterrupt ==
    /\ ~ctrl_interrupt_flag
    /\ run_pc \notin {"done", "aborted"}
    /\ ctrl_interrupt_flag' = TRUE
    /\ UNCHANGED <<retryVars, watchVars, partVars, asrVars, textVars, lcVars, fsVars, ledgerVars, fp_interrupt_flag, pfVars, pfHist,
                   runVars, faults>>

\* the program is started: every component is constructed anew and the
\* ledger is loaded from the record file
StartProgram ==
    /\ run_no' = run_no + 1
    /\ RetryReset
    /\ processed_audio' = PersistedLedger
    /\ ctrl_interrupt_flag' = FALSE
    /\ fp_interrupt_flag' = FALSE
    /\ PfReset
    /\ file_segments' = 0
    /\ run_pc' = "scan"
    /\ media_files' = <<>>
    /\ file_idx' = 1
    /\ stats' = NoStats
    /\ temp_dir' = TRUE
    /\ UNCHANGED <<watchVars, partVars, asrVars, textVars, lcVars, fsVars, record_file>>

\* the program is run again after it ended
Restart ==
    /\ run_no < MaxRuns
    /\ run_pc \in {"done", "aborted"}
    /\ StartProgram
    /\ UNCHANGED faults

\* the program crashes (or is killed) at any point of a run and is started again
Crash ==
    /\ run_no < MaxRuns
    /\ run_pc \notin {"done", "aborted"}
    /\ faults < MaxFaults
    /\ faults' = faults + 1
    /\ StartProgram

\* between two runs of the program the record file is damaged (truncated or
\* edited) so that it no longer parses
RecordFileDamaged ==
    /\ run_pc \in {"done", "aborted"}
    /\ run_no < MaxRuns
    /\ record_file.state = "json"
    /\ faults < MaxFaults
    /\ faults' = faults + 1
    /\ record_file' = UnparsableFile
    /\ UNCHANGED <<retryVars, watchVars, partVars, asrVars, textVars, lcVars, fsVars, processed_audio, flagVars, pfVars,
                   pfHist, runVars>>

(***************************************************************************)
(* File watcher: FileWatcher::handle_file_event and the deferred task it   *)
(* spawns per event (processing/file_processor.rs).                        *)
(***************************************************************************)
\* bounds of the watcher model
MaxEvents == 3
MaxTime == 7

\* FileWatcher::new(processor, 5)
debounce_seconds == 5
\* the extra delay for the file to be written completely
SettleSeconds == 2

\* bound of the transcription pool
MaxWorkersCfg == 1
\* TranscriptionProcessor: the size of the pool, as configured
max_workers == MaxWorkersCfg

\* the media paths the events are about
WatchedPaths == {<<"media", "a", "mp3">>, <<"media", "b", "mp3">>}
\* pending_files.get(path) = None
NoInstant == -1
Events == 1..MaxEvents

WatchInit ==
    /\ now = 0
    /\ path_exists = [p \in WatchedPaths |-> TRUE]
    /\ pending_files = [p \in WatchedPaths |-> NoInstant]
    /\ processed_files = {}
    /\ h_pc = "idle"
    /\ h_ev = [id |-> 0, path |-> NoPath]
    /\ task_pc = [e \in Events |-> "unspawned"]
    /\ task_wake = [e \in Events |-> 0]
    /\ ev_count = 0
    /\ ev_time = [e \in Events |-> NoInstant]
    /\ dispatched_by = <<>>
    /\ ev_path = [e \in Events |-> NoPath]
    /\ asr_calls = [e \in Events |-> 0]

\* FileWatcher::is_media_file: an existing file with a media extension
is_media_file(path) == path_exists[path] /\ extension(path) \in {"mp3"} \cup video_extensions

\* Instant::elapsed
elapsed(time) == now - time

\* time passes
Tick ==
    /\ now < MaxTime
    /\ now' = now + 1
    /\ UNCHANGED <<path_exists, pending_files, processed_files, h_pc, h_ev,
                   task_pc, task_wake, ev_count, ev_time, dispatched_by>>
    /\ UNCHANGED <<retryVars, procVars, partVars, asrVars, textVars, lcVars>>
    /\ UNCHANGED <<ev_path, asr_calls>>

\* a watched file is removed
FileRemoved(path) ==
    /\ path_exists[path]
    /\ path_exists' = [path_exists EXCEPT ![path] = FALSE]
    /\ UNCHANGED <<now, pending_files, processed_files, h_pc, h_ev,
                   task_pc, task_wake, ev_count, ev_time, dispatched_by>>
    /\ UNCHANGED <<retryVars, procVars, partVars, asrVars, textVars, lcVars>>
    /\ UNCHANGED <<ev_path, asr_calls>>

\* variant: the event of a path among processed_files is not ignored
H_Receive_NoInFlightCheck(path) ==
    /\ h_pc = "idle"
    /\ ev_count < MaxEvents
    /\ ev_count' = ev_count + 1
    /\ ev_time' = [ev_time EXCEPT ![ev_count + 1] = now]
    /\ IF ~is_media_file(path)
         THEN /\ task_pc' = [task_pc EXCEPT ![ev_count + 1] = "dropped"]
              /\ UNCHANGED <<h_pc, h_ev>>
         ELSE /\ h_pc' = "insert"
              /\ h_ev' = [id |-> ev_count + 1, path |-> path]
              /\ UNCHANGED task_pc
    /\ UNCHANGED <<now, path_exists, pending_files, processed_files, task_wake,
                   dispatched_by>>
    /\ UNCHANGED <<retryVars, procVars, partVars, asrVars, textVars, lcVars>>
    /\ ev_path' = [ev_path EXCEPT ![ev_count + 1] = path]
    /\ UNCHANGED asr_calls

\* handle_file_event, first part: a create/modify event is taken from the
\* channel; not a media file, or already among processed_files: return
H_Receive(path) ==
    /\ h_pc = "idle"
    /\ ev_count < MaxEvents
    /\ ev_count' = ev_count + 1
    /\ ev_time' = [ev_time EXCEPT ![ev_count + 1] = now]
    /\ IF ~is_media_file(path) \/ path \in processed_files
         THEN /\ task_pc' = [task_pc EXCEPT ![ev_count + 1] = "dropped"]
              /\ UNCHANGED <<h_pc, h_ev>>
         ELSE /\ h_pc' = "insert"
              /\ h_ev' = [id |-> ev_count + 1, path |-> path]
              /\ UNCHANGED task_pc
    /\ UNCHANGED <<now, path_exists, pending_files, processed_files, task_wake,
                   dispatched_by>>
    /\ UNCHANGED <<retryVars, procVars, partVars, asrVars, textVars, lcVars>>
    /\ ev_path' = [ev_path EXCEPT ![ev_count + 1] = path]
    /\ UNCHANGED asr_calls

\* handle_file_event, second part: pending_files.insert(path, Instant::now())
\* and tokio::spawn of the deferred task, which sleeps debounce_seconds
H_Insert ==
    /\ h_pc = "insert"
    /\ pending_files' = [pending_files EXCEPT ![h_ev.path] = now]
    /\ task_pc' = [task_pc EXCEPT ![h_ev.id] = "sleep"]
    /\ task_wake' = [task_wake EXCEPT ![h_ev.id] = now + debounce_seconds]
    /\ h_pc' = "idle"
    /\ h_ev' = [id |-> 0, path |-> NoPath]
    /\ UNCHANGED <<now, path_exists, processed_files, ev_count, ev_time, dispatched_by>>
    /\ UNCHANGED <<retryVars, procVars, partVars, asrVars, textVars, lcVars>>
    /\ UNCHANGED <<ev_path, asr_calls>>

\* the task of event e is finished
TaskDone(e) == task_pc' = [task_pc EXCEPT ![e] = "done"]

\* deferred task, after the debounce sleep (which lasts at least
\* debounce_seconds): a vanished file is removed from pending_files
T_CheckExists(e, path) ==
    /\ task_pc[e] = "sleep"
    /\ path = ev_path[e]
    /\ now >= task_wake[e]
    /\ IF ~path_exists[path]
         THEN /\ pending_files' = [pending_files EXCEPT ![path] = NoInstant]
              /\ TaskDone(e)
         ELSE /\ task_pc' = [task_pc EXCEPT ![e] = "read"]
              /\ UNCHANGED pending_files
    /\ UNCHANGED <<now, path_exists, processed_files, h_pc, h_ev, task_wake,
                   ev_count, ev_time, dispatched_by>>
    /\ UNCHANGED <<retryVars, procVars, partVars, asrVars, textVars, lcVars>>
    /\ UNCHANGED <<ev_path, asr_calls>>

\* variant: an entry exactly debounce_seconds old still counts as too young
T_ReadPending_StrictElapsed(e, path) ==
    /\ task_pc[e] = "read"
    /\ path = ev_path[e]
    /\ LET pending_time == pending_files[path] IN
         IF pending_time # NoInstant /\ elapsed(pending_time) > debounce_seconds
           THEN task_pc' = [task_pc EXCEPT ![e] = "move"]
           ELSE TaskDone(e)
    /\ UNCHANGED <<now, path_exists, pending_files, processed_files, h_pc, h_ev,
                   task_wake, ev_count, ev_time, dispatched_by>>
    /\ UNCHANGED <<retryVars, procVars, partVars, asrVars, textVars, lcVars>>
    /\ UNCHANGED <<ev_path, asr_calls>>

\* deferred task: pending_files.get(path); no entry, or an entry younger than
\* debounce_seconds: return
T_ReadPending(e, path) ==
    /\ task_pc[e] = "read"
    /\ path = ev_path[e]
    /\ LET pending_time == pending_files[path] IN
         IF pending_time # NoInstant /\ elapsed(pending_time) >= debounce_seconds
           THEN task_pc' = [task_pc EXCEPT ![e] = "move"]
           ELSE TaskDone(e)
    /\ UNCHANGED <<now, path_exists, pending_files, processed_files, h_pc, h_ev,
                   task_wake, ev_count, ev_time, dispatched_by>>
    /\ UNCHANGED <<retryVars, procVars, partVars, asrVars, textVars, lcVars>>
    /\ UNCHANGED <<ev_path, asr_calls>>

\* deferred task: the path goes from pending_files to processed_files; then
\* the task sleeps the settle delay
T_Move(e, path) ==
    /\ task_pc[e] = "move"
    /\ path = ev_path[e]
    /\ pending_files' = [pending_files EXCEPT ![path] = NoInstant]
    /\ processed_files' = processed_files \cup {path}
    /\ task_pc' = [task_pc EXCEPT ![e] = "settle"]
    /\ task_wake' = [task_wake EXCEPT ![e] = now + SettleSeconds]
    /\ UNCHANGED <<now, path_exists, h_pc, h_ev, ev_count, ev_time, dispatched_by>>
    /\ UNCHANGED <<retryVars, procVars, partVars, asrVars, textVars, lcVars>>
    /\ UNCHANGED <<ev_path, asr_calls>>

\* variant: a file that vanished during the settle delay is left in
\* processed_files
T_Dispatch_KeepVanished(e, path) ==
    /\ task_pc[e] = "settle"
    /\ path = ev_path[e]
    /\ now >= task_wake[e]
    /\ IF ~path_exists[path]
         THEN /\ TaskDone(e)
              /\ UNCHANGED <<dispatched_by, processed_files>>
         ELSE /\ task_pc' = [task_pc EXCEPT ![e] = "process"]
              /\ dispatched_by' = Append(dispatched_by, e)
              /\ UNCHANGED processed_files
    /\ UNCHANGED <<now, path_exists, pending_files, h_pc, h_ev, task_wake,
                   ev_count, ev_time>>
    /\ UNCHANGED <<retryVars, procVars, partVars, asrVars, textVars, lcVars>>
    /\ UNCHANGED <<ev_path, asr_calls>>

\* deferred task, after the settle delay: a vanished file leaves
\* processed_files, otherwise processor.process_file(&path) is called
T_Dispatch(e, path) ==
    /\ task_pc[e] = "settle"
    /\ path = ev_path[e]
    /\ now >= task_wake[e]
    /\ IF ~path_exists[path]
         THEN /\ processed_files' = processed_files \ {path}
              /\ TaskDone(e)
              /\ UNCHANGED dispatched_by
         ELSE /\ task_pc' = [task_pc EXCEPT ![e] = "process"]
              /\ dispatched_by' = Append(dispatched_by, e)
              /\ UNCHANGED processed_files
    /\ UNCHANGED <<now, path_exists, pending_files, h_pc, h_ev, task_wake,
                   ev_count, ev_time>>
    /\ UNCHANGED <<retryVars, procVars, partVars, asrVars, textVars, lcVars>>
    /\ UNCHANGED <<ev_path, asr_calls>>

\* deferred task: process_file returned (Ok(true), Ok(false) or Err); the
\* path leaves processed_files
T_Processed(e, path) ==
    /\ task_pc[e] = "process"
    /\ path = ev_path[e]
    /\ asr_calls[e] = 0
    /\ processed_files' = processed_files \ {path}
    /\ TaskDone(e)
    /\ UNCHANGED <<now, path_exists, pending_files, h_pc, h_ev, task_wake,
                   ev_count, ev_time, dispatched_by>>
    /\ UNCHANGED <<retryVars, procVars, partVars, asrVars, textVars, lcVars>>
    /\ UNCHANGED <<ev_path, asr_calls>>

\* the process_file call of the task submits a segment to the pool: one more
\* ASR call is in flight, at most max_workers per call of the pool
T_AsrStart(e) ==
    /\ task_pc[e] = "process"
    /\ asr_calls[e] < max_workers
    /\ asr_calls' = [asr_calls EXCEPT ![e] = @ + 1]
    /\ UNCHANGED <<now, path_exists, pending_files, processed_files, h_pc, h_ev,
                   task_pc, task_wake, ev_count, ev_time, dispatched_by, ev_path>>
    /\ UNCHANGED <<retryVars, procVars, partVars, asrVars, textVars, lcVars>>

\* an ASR call of the task returns
T_AsrEnd(e) ==
    /\ asr_calls[e] > 0
    /\ asr_calls' = [asr_calls EXCEPT ![e] = @ - 1]
    /\ UNCHANGED <<now, path_exists, pending_files, processed_files, h_pc, h_ev,
                   task_pc, task_wake, ev_count, ev_time, dispatched_by, ev_path>>
    /\ UNCHANGED <<retryVars, procVars, partVars, asrVars, textVars, lcVars>>

\* bounds of the watcher runs checked for progress: the last moment at which
\* an event arrives
LastEventTime == 1
\* and the number of events that arrive
LiveEvents == 2

\* time passes: freely until the last event, and after it for as long as a
\* deferred task is asleep; the two lock scopes of the handler take no time
\* on this clock
LiveTick ==
    /\ h_pc = "idle"
    /\ \/ now < LastEventTime
       \/ \E e \in Events : task_pc[e] \in {"sleep", "settle"} /\ task_wake[e] > now
    /\ now' = now + 1
    /\ UNCHANGED <<path_exists, pending_files, processed_files, h_pc, h_ev,
                   task_pc, task_wake, ev_count, ev_time, dispatched_by>>
    /\ UNCHANGED <<retryVars, procVars, partVars, asrVars, textVars, lcVars>>
    /\ UNCHANGED <<ev_path, asr_calls>>

(***************************************************************************)
(* Part Manager: the parts of one audio and their time ranges, as          *)
(* process_large_audio_file obtains them.                                  *)
(***************************************************************************)
\* bounds of the part model
MaxDuration == 8
MaxPartLen == 6

Min(a, b) == IF a <= b THEN a ELSE b

\* no partition is being computed
PartsIdle ==
    /\ pm_pc = "idle"
    /\ pm_duration = 0
    /\ pm_part_seconds = 0
    /\ pm_total_parts = 0
    /\ pm_ranges = <<>>

\* an audio of any duration d > 0, a part length m > 0
PartsInit ==
    /\ pm_pc = "start"
    /\ pm_duration \in 1..MaxDuration
    /\ pm_part_seconds \in 1..MaxPartLen
    /\ pm_total_parts = 0
    /\ pm_ranges = <<>>

\* get_parts_for_audio: the number of parts of the audio
PM_GetParts ==
    /\ pm_pc = "start"
    /\ pm_total_parts' = PartCount(pm_duration, pm_part_seconds)
    /\ pm_pc' = "ranges"
    /\ UNCHANGED <<pm_duration, pm_part_seconds, pm_ranges>>
    /\ UNCHANGED <<retryVars, procVars, watchVars, asrVars, textVars, lcVars>>

\* variant: the end of the range is not limited to the duration of the audio
PM_PartRange_Unclamped ==
    /\ pm_pc = "ranges"
    /\ Len(pm_ranges) < pm_total_parts
    /\ LET part_idx == Len(pm_ranges)
           range == PartRange(part_idx, pm_part_seconds)
       IN pm_ranges' = Append(pm_ranges, <<range[1], range[2]>>)
    /\ UNCHANGED <<pm_pc, pm_duration, pm_part_seconds, pm_total_parts>>
    /\ UNCHANGED <<retryVars, procVars, watchVars, asrVars, textVars, lcVars>>

\* the time range of the next part: get_part_time_range(part_idx), the end
\* limited by end_time.min(audio_duration)
PM_PartRange ==
    /\ pm_pc = "ranges"
    /\ Len(pm_ranges) < pm_total_parts
    /\ LET part_idx == Len(pm_ranges)
           range == PartRange(part_idx, pm_part_seconds)
       IN pm_ranges' = Append(pm_ranges, <<range[1], Min(range[2], pm_duration)>>)
    /\ UNCHANGED <<pm_pc, pm_duration, pm_part_seconds, pm_total_parts>>
    /\ UNCHANGED <<retryVars, procVars, watchVars, asrVars, textVars, lcVars>>

\* every part has its range
PM_Done ==
    /\ pm_pc = "ranges"
    /\ Len(pm_ranges) = pm_total_parts
    /\ pm_pc' = "done"
    /\ UNCHANGED <<pm_duration, pm_part_seconds, pm_total_parts, pm_ranges>>
    /\ UNCHANGED <<retryVars, procVars, watchVars, asrVars, textVars, lcVars>>

(***************************************************************************)
(* ASR Backend Registry (AsrManager, constructed by ProcessorController::new *)
(* and read by print_final_stats): selection by priority, statistics, and  *)
(* the circuit breaker.                                                    *)
(***************************************************************************)
\* bounds of the registry model
MaxAsrCalls == 5
DisableThreshold == 2

\* the backends in priority order: A (priority 1), B (priority 2)
Backends == {"A", "B"}
Priority == [b \in Backends |-> IF b = "A" THEN 1 ELSE 2]

\* AsrManager::new: every backend available, no call counted
AsrInit ==
    /\ asr_available = [b \in Backends |-> TRUE]
    /\ asr_count = [b \in Backends |-> 0]
    /\ asr_success = [b \in Backends |-> 0]
    /\ asr_consecutive_failures = [b \in Backends |-> 0]
    /\ asr_call = [w \in Workers |-> None]
    /\ asr_log = <<>>

\* selection: the available backend of the best priority, None when every
\* backend is disabled
SelectBackend ==
    LET usable == {b \in Backends : asr_available[b]}
    IN IF usable = {} THEN None
       ELSE CHOOSE b \in usable : \A c \in usable : Priority[b] <= Priority[c]

\* variant: the selection does not skip a disabled backend
Asr_Select_IgnoreAvailability(w) ==
    /\ asr_call[w] = None
    /\ Len(asr_log) < MaxAsrCalls
    /\ LET chosen == CHOOSE b \in Backends : \A c \in Backends : Priority[b] <= Priority[c]
       IN /\ asr_log' = Append(asr_log, [backend |-> chosen, available |-> asr_available])
          /\ asr_count' = [asr_count EXCEPT ![chosen] = @ + 1]
          /\ asr_call' = [asr_call EXCEPT ![w] = chosen]
    /\ UNCHANGED <<asr_available, asr_success, asr_consecutive_failures>>
    /\ UNCHANGED <<retryVars, procVars, watchVars, partVars, textVars, lcVars>>

\* a worker calls the registry: a backend is selected and its usage count
\* updated; with every backend disabled the call fails at once
Asr_Select(w) ==
    /\ asr_call[w] = None
    /\ Len(asr_log) < MaxAsrCalls
    /\ LET chosen == SelectBackend
       IN /\ asr_log' = Append(asr_log, [backend |-> chosen, available |-> asr_available])
          /\ IF chosen = None
               THEN UNCHANGED <<asr_count, asr_call>>
               ELSE /\ asr_count' = [asr_count EXCEPT ![chosen] = @ + 1]
                    /\ asr_call' = [asr_call EXCEPT ![w] = chosen]
    /\ UNCHANGED <<asr_available, asr_success, asr_consecutive_failures>>
    /\ UNCHANGED <<retryVars, procVars, watchVars, partVars, textVars, lcVars>>

\* the network call of worker w completes: the success or failure is counted,
\* and a backend whose consecutive failures reach the threshold is disabled
Asr_Complete(w, ok) ==
    /\ asr_call[w] # None
    /\ LET b == asr_call[w]
           failures == IF ok THEN 0 ELSE asr_consecutive_failures[b] + 1
       IN /\ asr_success' = [asr_success EXCEPT ![b] = IF ok THEN @ + 1 ELSE @]
          /\ asr_consecutive_failures' = [asr_consecutive_failures EXCEPT ![b] = failures]
          /\ asr_available' = [asr_available EXCEPT
                                 ![b] = IF failures >= DisableThreshold THEN FALSE ELSE @]
    /\ asr_call' = [asr_call EXCEPT ![w] = None]
    /\ UNCHANGED <<asr_count, asr_log>>
    /\ UNCHANGED <<retryVars, procVars, watchVars, partVars, textVars, lcVars>>

\* AsrManager::get_service_stats as print_final_stats reads it: per backend
\* the availability, the usage count and the successes of the success rate
get_service_stats ==
    [b \in Backends |-> [available |-> asr_available[b], count |-> asr_count[b],
                         successes |-> asr_success[b]]]

(***************************************************************************)
(* Assembly of the text of a file or part from the results of the pool     *)
(* (TextProcessor::prepare_result_text, as process_audio_file and          *)
(* process_large_audio_file call it).                                      *)
(***************************************************************************)
\* bound of the assembly model: the segments of the file or part
MaxSegments == 4

\* the transcription of segment i
Letters == <<"a", "b", "c", "d", "e", "f">>
SegmentText(i) == Letters[i + 1]

\* no text is being assembled
TextIdle ==
    /\ tx_pc = "idle"
    /\ tx_segments = {}
    /\ tx_failed = {}
    /\ tx_order = <<>>
    /\ tx_text = <<>>

\* the segments of a file or part are handed to the pool
TextInit ==
    /\ tx_pc = "pool"
    /\ tx_segments \in {0..(n - 1) : n \in 1..MaxSegments}
    /\ tx_failed = {}
    /\ tx_order = <<>>
    /\ tx_text = <<>>

\* the keys of the result map: the segments transcribed so far
ResultKeys == {tx_order[k] : k \in 1..Len(tx_order)}
\* the segments whose call has not ended
TxPending == (tx_segments \ tx_failed) \ ResultKeys

\* the call of segment i ends with a transcription, in whatever order the
\* workers finish
TX_Complete(i) ==
    /\ tx_pc = "pool"
    /\ i \in TxPending
    /\ tx_order' = Append(tx_order, i)
    /\ UNCHANGED <<tx_pc, tx_segments, tx_failed, tx_text>>
    /\ UNCHANGED <<retryVars, procVars, watchVars, partVars, asrVars, lcVars>>

\* the call of segment i ends without a result
TX_Fail(i) ==
    /\ tx_pc = "pool"
    /\ i \in TxPending
    /\ tx_failed' = tx_failed \cup {i}
    /\ UNCHANGED <<tx_pc, tx_segments, tx_order, tx_text>>
    /\ UNCHANGED <<retryVars, procVars, watchVars, partVars, asrVars, lcVars>>

\* variant: the texts are concatenated in the order in which the results
\* arrived in the map
TX_Assemble_CompletionOrder ==
    /\ tx_pc = "pool"
    /\ TxPending = {}
    /\ tx_text' = [k \in 1..Len(tx_order) |-> SegmentText(tx_order[k])]
    /\ tx_pc' = "done"
    /\ UNCHANGED <<tx_segments, tx_failed, tx_order>>
    /\ UNCHANGED <<retryVars, procVars, watchVars, partVars, asrVars, lcVars>>

\* prepare_result_text(&segment_files, &segment_results, ...): the texts of
\* the transcribed segments, concatenated in the order of the segment list
TX_Assemble ==
    /\ tx_pc = "pool"
    /\ TxPending = {}
    /\ LET indices == prepare_result_text(tx_segments, ResultKeys)
       IN tx_text' = [k \in 1..Len(indices) |-> SegmentText(indices[k])]
    /\ tx_pc' = "done"
    /\ UNCHANGED <<tx_segments, tx_failed, tx_order>>
    /\ UNCHANGED <<retryVars, procVars, watchVars, partVars, asrVars, lcVars>>

(***************************************************************************)
(* FileWatcher::start and FileWatcher::stop.                               *)
(***************************************************************************)
\* bound: the number of start and stop calls made on the FileWatcher
MaxLifecycleCalls == 5

\* what notify does in a start call: the watcher is created and registered
\* on the media folder, or recommended_watcher fails, or watch fails
NotifyOutcomes == {"watching", "create_fails", "watch_fails"}

\* FileWatcher::new: no watcher instance, not running
LifecycleInit ==
    /\ watcher = FALSE
    /\ watcher_running = FALSE
    /\ lc_log = <<>>

\* FileWatcher::start: Err when the flag is set; otherwise the flag is set,
\* then the watcher is created and registered (each followed by `?`) and kept
FW_Start(outcome) ==
    /\ Len(lc_log) < MaxLifecycleCalls
    /\ IF watcher_running
         THEN /\ lc_log' = Append(lc_log, [op |-> "start", result |-> "already_running"])
              /\ UNCHANGED <<watcher, watcher_running>>
         ELSE /\ watcher_running' = TRUE
              /\ IF outcome = "watching"
                   THEN /\ watcher' = TRUE
                        /\ lc_log' = Append(lc_log, [op |-> "start", result |-> "ok"])
                   ELSE /\ UNCHANGED watcher
                        /\ lc_log' = Append(lc_log, [op |-> "start", result |-> outcome])
    /\ UNCHANGED <<retryVars, procVars, watchVars, partVars, asrVars, textVars>>

\* FileWatcher::stop: the watcher instance, if one is held, is dropped and
\* the flag cleared; Ok(()) in every case
FW_Stop ==
    /\ Len(lc_log) < MaxLifecycleCalls
    /\ IF watcher
         THEN /\ watcher' = FALSE
              /\ watcher_running' = FALSE
         ELSE UNCHANGED <<watcher, watcher_running>>
    /\ lc_log' = Append(lc_log, [op |-> "stop", result |-> "ok"])
    /\ UNCHANGED <<retryVars, procVars, watchVars, partVars, asrVars, textVars>>

(***************************************************************************)
(* Specifications.                                                         *)
(***************************************************************************)
vars == <<retryVars, procVars, watchVars, partVars, asrVars, textVars, lcVars>>

Init ==
    /\ max_retries = RunMaxRetries
    /\ RetryInit
    /\ ProcInit
    /\ WatchInit
    /\ PartsIdle
    /\ AsrInit
    /\ TextIdle
    /\ LifecycleInit

\* the program run on the media folder: process_existing_files
Next ==
    \/ Run_Scan
    \/ Run_SafeExecute
    \/ PF_Begin
    \/ PF_Classify
    \/ PF_ExtractAudio
    \/ PF_GetDuration
    \/ PF_Split
    \/ PF_Transcribe
    \/ PF_Retry
    \/ PF_PrepareText
    \/ PF_SaveText
    \/ PF_UpdateRecord
    \/ PF_Persist
    \/ PF_DeleteAudio
    \/ PF_GetParts
    \/ PF_IndexAllDone
    \/ PF_PersistAllDone
    \/ PF_LargeSplit
    \/ PF_LoopCheck
    \/ PF_PartTranscribe
    \/ PF_PartRetry
    \/ PF_PartText
    \/ PF_SavePartText
    \/ PF_PersistPart
    \/ PF_CheckCompleted
    \/ PF_IndexFinal
    \/ PF_PersistFinal
    \/ PF_End
    \/ SE_CountSuccess(Main) /\ UNCHANGED <<procVars, watchVars, partVars, asrVars, textVars, lcVars>>
    \/ SE_CountError(Main) /\ UNCHANGED <<procVars, watchVars, partVars, asrVars, textVars, lcVars>>
    \/ SE_CountFailure(Main) /\ UNCHANGED <<procVars, watchVars, partVars, asrVars, textVars, lcVars>>
    \/ Run_AfterFile
    \/ Run_Finish
    \/ SetInterrupt
    \/ Restart
    \/ Crash
    \/ RecordFileDamaged

Spec == Init /\ [][Next]_vars

\* callers of safe_execute with an arbitrary operation
RetryNext ==
    \/ \E w \in Workers, c \in CallerContexts :
         se_calls < MaxCalls /\ SE_Start(w, c) /\ UNCHANGED <<procVars, watchVars, partVars, asrVars, textVars, lcVars>>
    \/ \E w \in Workers, out \in OpOutcomes : SE_Call(w, out) /\ UNCHANGED <<procVars, watchVars, partVars, asrVars, textVars, lcVars>>
    \/ \E w \in Workers : SE_CountSuccess(w) /\ UNCHANGED <<procVars, watchVars, partVars, asrVars, textVars, lcVars>>
    \/ \E w \in Workers : SE_CountError(w) /\ UNCHANGED <<procVars, watchVars, partVars, asrVars, textVars, lcVars>>
    \/ \E w \in Workers : SE_CountFailure(w) /\ UNCHANGED <<procVars, watchVars, partVars, asrVars, textVars, lcVars>>
    \/ \E w \in Workers : SE_Return(w) /\ UNCHANGED <<procVars, watchVars, partVars, asrVars, textVars, lcVars>>

\* an empty media folder, for the specifications that do not process files
IdleProcInit ==
    /\ ProcInit
    /\ ext_of = [st \in Stems |-> "mp3"]
    /\ dur = [st \in Stems |-> 0]

RetryOnlyInit ==
    /\ max_retries = MaxRetriesCfg
    /\ RetryInit
    /\ IdleProcInit
    /\ WatchInit
    /\ PartsIdle
    /\ AsrInit
    /\ TextIdle
    /\ LifecycleInit

SpecRetry == RetryOnlyInit /\ [][RetryNext]_vars

\* a step of the safe_execute call of worker w: an invocation of the wrapped
\* operation returns, or the call goes on after it
SeStep(w) ==
    /\ \/ \E out \in OpOutcomes : SE_Call(w, out)
       \/ SE_CountSuccess(w)
       \/ SE_CountError(w)
       \/ SE_CountFailure(w)
    /\ UNCHANGED <<procVars, watchVars, partVars, asrVars, textVars, lcVars>>

\* every invocation of the wrapped operation returns, the lock of the
\* counters is granted and thread::sleep ends
RetryFairness == \A w \in Workers : WF_vars(SeStep(w))

\* safe_execute in runs where every call is given its steps
SpecRetryLive == RetryOnlyInit /\ [][RetryNext]_vars /\ RetryFairness

\* the file watcher with its event loop and deferred tasks
WatchNext ==
    \/ Tick
    \/ \E path \in WatchedPaths : FileRemoved(path)
    \/ \E path \in WatchedPaths : H_Receive(path)
    \/ H_Insert
    \/ \E e \in Events, path \in WatchedPaths : T_CheckExists(e, path)
    \/ \E e \in Events, path \in WatchedPaths : T_ReadPending(e, path)
    \/ \E e \in Events, path \in WatchedPaths : T_Move(e, path)
    \/ \E e \in Events, path \in WatchedPaths : T_Dispatch(e, path)
    \/ \E e \in Events, path \in WatchedPaths : T_Processed(e, path)
    \/ \E e \in Events : T_AsrStart(e)
    \/ \E e \in Events : T_AsrEnd(e)

WatchOnlyInit ==
    /\ max_retries = RunMaxRetries
    /\ RetryInit
    /\ IdleProcInit
    /\ WatchInit
    /\ PartsIdle
    /\ AsrInit
    /\ TextIdle
    /\ LifecycleInit

SpecWatch == WatchOnlyInit /\ [][WatchNext]_vars

\* the file watcher in runs where the runtime schedules every deferred task,
\* every sleep ends and every process_file call returns
WatchLiveNext ==
    \/ LiveTick
    \/ \E path \in WatchedPaths : FileRemoved(path)
    \/ \E path \in WatchedPaths :
         now <= LastEventTime /\ ev_count < LiveEvents /\ H_Receive(path)
    \/ now <= LastEventTime /\ H_Insert
    \/ \E e \in Events, path \in WatchedPaths : T_CheckExists(e, path)
    \/ \E e \in Events, path \in WatchedPaths : T_ReadPending(e, path)
    \/ \E e \in Events, path \in WatchedPaths : T_Move(e, path)
    \/ \E e \in Events, path \in WatchedPaths : T_Dispatch(e, path)
    \/ \E e \in Events, path \in WatchedPaths : T_Processed(e, path)

\* a step of some deferred task
TaskStep ==
    \E e \in Events, path \in WatchedPaths :
        \/ T_CheckExists(e, path)
        \/ T_ReadPending(e, path)
        \/ T_Move(e, path)
        \/ T_Dispatch(e, path)
        \/ T_Processed(e, path)

\* the clock does not stop while a task sleeps, the handler finishes the
\* event it has begun, and the runtime does not leave the tasks that are
\* ready waiting for ever
WatchFairness ==
    /\ WF_vars(LiveTick)
    /\ WF_vars(H_Insert)
    /\ WF_vars(TaskStep)

SpecWatchLive == WatchOnlyInit /\ [][WatchLiveNext]_vars /\ WatchFairness

\* the partition of an audio into parts
PartsNext ==
    \/ PM_GetParts
    \/ PM_PartRange
    \/ PM_Done

PartsOnlyInit ==
    /\ max_retries = RunMaxRetries
    /\ RetryInit
    /\ IdleProcInit
    /\ WatchInit
    /\ PartsInit
    /\ AsrInit
    /\ TextIdle
    /\ LifecycleInit

SpecParts == PartsOnlyInit /\ [][PartsNext]_vars

\* the workers of the pool calling the ASR Backend Registry
AsrNext ==
    \/ \E w \in Workers : Asr_Select(w)
    \/ \E w \in Workers, ok \in BOOLEAN : Asr_Complete(w, ok)

AsrOnlyInit ==
    /\ max_retries = RunMaxRetries
    /\ RetryInit
    /\ IdleProcInit
    /\ WatchInit
    /\ PartsIdle
    /\ AsrInit
    /\ TextIdle
    /\ LifecycleInit

SpecAsr == AsrOnlyInit /\ [][AsrNext]_vars

\* the results of a pool run and the assembly of their text
TextNext ==
    \/ \E i \in 0..(MaxSegments - 1) : TX_Complete(i)
    \/ \E i \in 0..(MaxSegments - 1) : TX_Fail(i)
    \/ TX_Assemble

TextOnlyInit ==
    /\ max_retries = RunMaxRetries
    /\ RetryInit
    /\ IdleProcInit
    /\ WatchInit
    /\ PartsIdle
    /\ AsrInit
    /\ TextInit
    /\ LifecycleInit

SpecText == TextOnlyInit /\ [][TextNext]_vars

\* the calls made on one FileWatcher
LifecycleNext ==
    \/ \E outcome \in NotifyOutcomes : FW_Start(outcome)
    \/ FW_Stop

SpecLifecycle == RetryOnlyInit /\ [][LifecycleNext]_vars

(***************************************************************************)
(* Properties of the retry executor (checked under SpecRetry).             *)
(***************************************************************************)

\* a finished safe_execute call of worker w that no other call overlapped
SeFinishedAlone(w) == se_pc[w] = "done" /\ se_solo[w]

\* the wrapped operation failed on every invocation of the call of worker w
SeAlwaysFailed(w) == se_ncall[w] > 0 /\ se_nfail[w] = se_ncall[w]

\* what the call of worker w added to the counters
SeAddedErrors(w, c) == error_counts[c] - se_snap[w].error_counts[c]
SeAddedRetries(w) == total_retries - se_snap[w].total_retries
SeAddedFailures(w) == total_failures - se_snap[w].total_failures
SeAddedSuccesses(w) == total_successes - se_snap[w].total_successes

\* the message ends with the text of the error e
EndsWith(msg, e) ==
    /\ Len(msg) >= Len(e)
    /\ SubSeq(msg, Len(msg) - Len(e) + 1, Len(msg)) = e

SeCompositeErrorReturned(w) ==
    /\ IsErr(se_result[w])
    /\ Contains(se_result[w].msg, se_ctx[w])
    /\ EndsWith(se_result[w].msg, se_last[w].msg)

\* C3 (as claimed): safe_execute on an operation that always fails records exactly
\* max_retries increments under the context label and in total_retries, one
\* failure, no success, and returns the composite error.
C3_AlwaysFailRecordsMaxRetries ==
    \A w \in Workers :
        (SeFinishedAlone(w) /\ SeAlwaysFailed(w)) =>
            /\ SeAddedErrors(w, se_ctx[w]) = max_retries
            /\ SeAddedRetries(w) = max_retries
            /\ SeAddedFailures(w) = 1
            /\ SeAddedSuccesses(w) = 0
            /\ SeCompositeErrorReturned(w)

\* C3 (amended): safe_execute on an operation that always fails records exactly
\* max_retries + 1 increments (one per failed invocation, the last one included)
\* under the context label and in total_retries, nothing under other labels,
\* exactly one failure and no success, and returns an error whose message
\* contains the context label and ends with the last underlying error.
C3_AlwaysFailRecordsEveryAttempt ==
    \A w \in Workers :
        (SeFinishedAlone(w) /\ SeAlwaysFailed(w)) =>
            /\ SeAddedErrors(w, se_ctx[w]) = max_retries + 1
            /\ \A c \in Contexts \ {se_ctx[w]} : SeAddedErrors(w, c) = 0
            /\ SeAddedRetries(w) = max_retries + 1
            /\ SeAddedFailures(w) = 1
            /\ SeAddedSuccesses(w) = 0
            /\ SeCompositeErrorReturned(w)

C3_Witness ==
    \E w \in Workers :
        /\ SeFinishedAlone(w) /\ SeAlwaysFailed(w)
        /\ se_ncall[w] = max_retries + 1
        /\ IsErr(se_result[w])
        /\ se_snap[w].total_retries > 0

\* C4: safe_execute on an operation that fails k < max_retries times and then
\* succeeds returns Ok with the operation's value, adds exactly k to the
\* error_counts entry of the context label (and to no other), exactly one to
\* total_successes and nothing to total_failures.
C4_FailKThenSucceed ==
    \A w \in Workers :
        (SeFinishedAlone(w) /\ IsOk(se_last[w]) /\ se_nfail[w] < max_retries) =>
            /\ se_result[w] = Ok(se_last[w].val)
            /\ SeAddedErrors(w, se_ctx[w]) = se_nfail[w]
            /\ \A c \in Contexts \ {se_ctx[w]} : SeAddedErrors(w, c) = 0
            /\ SeAddedSuccesses(w) = 1
            /\ SeAddedFailures(w) = 0

C4_Witness ==
    \E w \in Workers :
        /\ SeFinishedAlone(w) /\ IsOk(se_last[w])
        /\ se_nfail[w] = max_retries - 1 /\ se_nfail[w] > 0
        /\ IsOk(se_result[w])

\* C16: a call of safe_execute re-invokes the operation at most max_retries
\* times, each re-invocation follows one sleep, and the n-th sleep lasts
\* retry_delay * n.
C16_LinearBackoff ==
    \A w \in Workers :
        /\ Len(se_sleeps[w]) <= max_retries
        /\ se_ncall[w] <= Len(se_sleeps[w]) + 1
        /\ \A n \in 1..Len(se_sleeps[w]) : se_sleeps[w][n] = retry_delay * n

\* a call that used all its retries
C16_Witness ==
    \E w \in Workers :
        /\ se_pc[w] = "done"
        /\ max_retries >= 3
        /\ Len(se_sleeps[w]) = max_retries
        /\ se_ncall[w] = max_retries + 1

\* every call of safe_execute has returned
SeAllReturned == \A w \in Workers : se_pc[w] \in {"idle", "done"}

\* C17: under every interleaving of the workers' calls, once all calls have
\* returned, total_successes + total_failures is the number of calls and
\* total_retries the number of failed invocations of all calls.
C17_NoCounterUpdateLost ==
    SeAllReturned =>
        /\ total_successes + total_failures = se_calls
        /\ total_retries = se_failed_attempts

\* two calls that overlapped, each with a failed invocation, have returned
C17_Witness ==
    /\ SeAllReturned
    /\ \A w \in Workers : se_pc[w] = "done" /\ ~se_solo[w] /\ se_nfail[w] > 0
    /\ se_calls = NumWorkers

(***************************************************************************)
(* Properties of the file processor and the controller (checked under      *)
(* Spec).                                                                  *)
(***************************************************************************)

\* a process_file call is at its return, with result r
PfReturned == pf_pc = "ret"

\* the record the file had when the current process_file call began lists
\* some, but not all, of its parts complete
EntryPartial ==
    /\ pf_entry.present
    /\ pf_entry.total_parts > 0
    /\ pf_entry.processed_parts # {}
    /\ ~pf_entry.completed

\* the parts that were pending when the current call began
EntryPending == (0..(pf_entry.total_parts - 1)) \ pf_entry.processed_parts

\* the record of the file of the current call, in memory and as persisted
CurKey == AudioKeyOf(pf_file)
MemRecord == processed_audio[CurKey]
DiskRecord == PersistedLedger[CurKey]

\* C1: re-invoking process_file on a multi-part file whose record lists some
\* parts complete starts transcription for exactly the parts that were not
\* complete, and the record is completed only when every part is recorded.
C1_ResumeDispatchesPendingParts ==
    (PfReturned /\ EntryPartial /\ pf_result = Ok(TRUE)) =>
        /\ pf_started = EntryPending
        /\ MemRecord.completed =>
             (0..(MemRecord.total_parts - 1)) \subseteq MemRecord.processed_parts

\* C5: process_file skips a file only if the audio output path of the file is
\* a key of the record set; a file whose output is not a key is never skipped.
C5_SkippedOnlyIfOutputRecorded ==
    (PfReturned /\ pf_skipped) =>
        processed_audio[OutputAudioPath(file_stem(pf_file))].present

\* C6: at every point of the multi-part path (where a crash may happen) the
\* persisted record lists as complete every part whose processing has
\* finished; only the part in flight may be missing.
C6_FinishedPartsArePersisted ==
    (pf_pc \notin {"idle", "start"}) => pf_finished \subseteq DiskRecord.processed_parts

\* C7: when the transcription of a part begins, every part marked complete in
\* the record of the file is complete in the record file too: no part starts
\* while the checkpoint of an earlier part is unpersisted.
C7_CheckpointBeforeNextPart ==
    (pf_pc = "part_transcribe") =>
        MemRecord.processed_parts \subseteq DiskRecord.processed_parts

\* C8: once the interrupt flag has been set through
\* ProcessorController::set_interrupt_flag, the check at the head of the
\* multi-part loop starts no further part.
C8_InterruptStopsPartLoop ==
    [][(ctrl_interrupt_flag /\ pf_pc = "loop") => pf_pc' # "part_transcribe"]_vars

\* the current call is a re-run on a file whose record shows completed = true
EntryCompleted == pf_pc # "idle" /\ pf_entry.present /\ pf_entry.completed

\* C9 (as claimed): a re-run of process_file on a completed file dispatches no
\* segment, leaves the completed parts unchanged and (re)emits the manifest.
C9_RerunReemitsManifest ==
    (PfReturned /\ EntryCompleted /\ IsOk(pf_result)) =>
        /\ pf_dispatched = {}
        /\ MemRecord.processed_parts = pf_entry.processed_parts
        /\ pf_manifest_emits >= 1

\* C9 (amended): a re-run of process_file on a completed file never dispatches
\* a segment and never changes the completed parts or the completed flag; it
\* emits the manifest (once) when the file is not skipped as recognized and the
\* call returns Ok(true), and emits nothing when the file is skipped.
C9_RerunIdempotent ==
    EntryCompleted =>
        /\ pf_dispatched = {}
        /\ pf_started = {}
        /\ MemRecord.processed_parts = pf_entry.processed_parts
        /\ MemRecord.completed
        /\ (PfReturned /\ pf_result = Ok(TRUE) /\ ~pf_skipped) => pf_manifest_emits = 1
        /\ pf_skipped => pf_manifest_emits = 0

C9_Witness ==
    /\ PfReturned /\ EntryCompleted /\ pf_result = Ok(TRUE)
    /\ ~pf_skipped
    /\ pf_manifest_emits = 1

\* C10: a failure of a step while a file is processed never aborts the run:
\* process_existing_files goes on with the remaining files.
C10_StepFailureNeverAbortsRun == run_pc # "aborted"

\* C11: a record file that cannot be parsed is a fatal setup error: while the
\* record file of the run is unparsable, the run processes no file.
C11_UnparsableRecordFileIsFatal ==
    (record_file.state = "unparsable") =>
        /\ run_pc \notin {"loop", "safe_execute"}
        /\ pf_pc = "idle"

\* the output text of the audio of the current call has been written
OutputTextWritten == <<file_stem(pf_audio), "all">> \in out_texts
\* the record file holds a record of the audio of the current call
RecordPersisted ==
    /\ record_file.state = "json"
    /\ record_file.doc[pf_audio].present

\* C12: a step that removes the audio file is taken only when the output text
\* of the file is written and its record is in the record file; and when
\* process_file returns because writing the text or the records failed, the
\* audio file still exists.
C12_AudioDeletedOnlyAfterPersist ==
    [][/\ (exists' # exists /\ exists' \subseteq exists) =>
              (OutputTextWritten /\ RecordPersisted /\ exists \ exists' = {pf_audio})
       /\ (pf_pc' = "ret" /\ pf_pc # "ret"
              /\ pf_result' \in {Err(<<"save text">>), Err(<<"save records">>)}) =>
              pf_audio' \in exists']_vars

\* the single-pass path ended with the audio file removed
C12_Witness ==
    /\ PfReturned /\ pf_result = Ok(TRUE) /\ ~pf_skipped
    /\ pf_audio # NoPath /\ pf_audio \notin exists
    /\ OutputTextWritten /\ RecordPersisted

\* completed is true exactly when every part index below total_parts is in
\* processed_parts
CompletedIffAllParts(rec) ==
    rec.completed <=> ((0..(rec.total_parts - 1)) \subseteq rec.processed_parts)

\* C13: every record of the ledger, in memory and in the record file, is
\* completed if and only if each of its parts is in processed_parts.
C13_CompletedIffAllPartsDone ==
    \A k \in KeySpace :
        /\ processed_audio[k].present => CompletedIffAllParts(processed_audio[k])
        /\ PersistedLedger[k].present => CompletedIffAllParts(PersistedLedger[k])

\* C14: when the iteration of a part that has no transcribed segment ends, the
\* part is marked complete in the record of the file, in memory and in the
\* record file.
C14_EmptyPartMarkedComplete ==
    [][(/\ pf_pc = "part_text"
        /\ pf_results \cap pf_part_segments = {}
        /\ pf_pc' = "loop") =>
           /\ CurPart \in processed_audio'[pf_audio].processed_parts
           /\ CurPart \in PersistedLedger'[pf_audio].processed_parts]_vars

\* every record of ledger a is in ledger b, with at least the same parts
LedgerKept(a, b) ==
    \A k \in KeySpace :
        a[k].present => /\ b[k].present
                        /\ a[k].processed_parts \subseteq b[k].processed_parts

\* C15: no step of the program (a process_file step, an interrupt, a crash, a
\* restart) removes a record or a completed part: whatever the record file
\* holds it still holds after the step, and within a run the same is true of
\* the ledger in memory.
C15_ProgressNeverDiscarded ==
    [][/\ record_file'.state = "json" => LedgerKept(PersistedLedger, PersistedLedger')
       /\ run_no' = run_no => LedgerKept(processed_audio, processed_audio')]_vars

\* in a second run a file whose record listed a part is resumed, a further
\* part is recorded, and the record file holds the old and the new parts
C15_Witness ==
    /\ run_no = 2
    /\ PfReturned /\ pf_result = Ok(TRUE) /\ ~pf_skipped
    /\ pf_entry.present /\ pf_entry.processed_parts # {}
    /\ pf_finished # {}
    /\ pf_entry.processed_parts \cup pf_finished \subseteq DiskRecord.processed_parts
    /\ \E k \in KeySpace \ {CurKey} : PersistedLedger[k].present

\* start_processing has returned: Ok after cleanup, or the error of
\* process_existing_files
StartProcessingFinished == run_pc \in {"done", "aborted"}

\* C19: when start_processing has finished, normally or with an error, the
\* temporary directory of the run has been removed.
C19_TempDirRemovedAtEnd == StartProcessingFinished => ~temp_dir

(***************************************************************************)
(* Properties of the file watcher (checked under SpecWatch).               *)
(***************************************************************************)

\* the events received so far form one burst: each has been handled, any two
\* of them arrived within the debounce window of one another, all are about
\* the same path, and the file still exists
IsBurst ==
    /\ ev_count >= 1
    /\ h_pc = "idle"
    /\ \A i \in 1..ev_count : ev_path[i] = ev_path[1]
    /\ path_exists[ev_path[1]]
    /\ \A i, j \in 1..ev_count :
         ev_time[i] - ev_time[j] < debounce_seconds

\* C2: a burst of events on one path is handed to process_file at most once,
\* and only by the deferred task of the last event of the burst.
C2_BurstDispatchedOnceByLastEvent ==
    IsBurst =>
        /\ Len(dispatched_by) <= 1
        /\ \A k \in 1..Len(dispatched_by) : dispatched_by[k] = ev_count

\* the tasks whose process_file call is executing, and the ASR calls in flight
\* over all of them
RECURSIVE SumCalls(_)
SumCalls(E) ==
    IF E = {} THEN 0
    ELSE LET e == CHOOSE x \in E : TRUE IN asr_calls[e] + SumCalls(E \ {e})
ProcessingTasks == {e \in Events : task_pc[e] = "process"}
AsrCallsInFlight == SumCalls(Events)

\* C18: at most one process_file call executes at any moment, and the ASR
\* calls in flight never exceed max_workers, however many files the watcher
\* has been handed.
C18_OneFileAtATime ==
    /\ Cardinality(ProcessingTasks) <= 1
    /\ AsrCallsInFlight <= max_workers

(***************************************************************************)
(* Properties of the Part Manager (checked under SpecParts).               *)
(***************************************************************************)

\* n is ceil(d / m)
IsCeilDiv(n, d, m) == (n - 1) * m < d /\ d <= n * m

RoutedTo(b) == {i \in 1..Len(asr_log) : asr_log[i].backend = b}

\* C21: a backend whose consecutive failures reach the threshold is disabled;
\* once A is disabled it stays disabled, every call selected from then on
\* (while B is available) is routed to B, and the statistics table lists both
\* backends, each with the number of calls routed to it.
C21_FailoverToNextBackend ==
    [][/\ (~asr_available["A"] => ~asr_available'["A"])
       /\ \A b \in Backends :
            asr_consecutive_failures'[b] >= DisableThreshold => ~asr_available'[b]
       /\ \A i \in 1..Len(asr_log') :
            (~asr_log'[i].available["A"] /\ asr_log'[i].available["B"]) =>
                asr_log'[i].backend = "B"
       /\ DOMAIN get_service_stats' = Backends
       /\ \A b \in Backends :
            get_service_stats'[b].count = Cardinality(RoutedTo(b)')]_vars

\* every call to A failed until A was disabled, and a later call was routed to
\* B and succeeded
C21_Witness ==
    /\ ~asr_available["A"]
    /\ asr_success["A"] = 0
    /\ asr_count["A"] >= DisableThreshold
    /\ asr_available["B"]
    /\ asr_success["B"] >= 1
    /\ \E i \in 1..Len(asr_log) : ~asr_log[i].available["A"] /\ asr_log[i].backend = "B"
    /\ \A w \in Workers : asr_call[w] = None

(***************************************************************************)
(* Further properties of the file processor (checked under Spec).          *)
(***************************************************************************)

\* C22: when the text of a file or of a part is about to be assembled,
\* retry_failed_segments has been run on the segments of the first pass that
\* precedes it, whatever that first pass returned.
C22_RetryRunAfterEveryFirstPass ==
    (pf_pc \in {"text", "part_text"}) => pf_retried

\* C23: when process_audio_file ends at the duration query (the duration is
\* zero or cannot be read), process_file returns Ok(false), no segment has
\* been split or dispatched, the record of the file is as it was when the call
\* began, the record file is untouched and no file is removed.
C23_NoDurationIsSoftFailure ==
    [][(pf_pc = "audio" /\ pf_pc' = "ret") =>
           /\ pf_result' = Ok(FALSE)
           /\ pf_segments' = {} /\ pf_dispatched' = {}
           /\ processed_audio'[AudioKeyOf(pf_file)] = pf_entry
           /\ processed_audio' = processed_audio
           /\ record_file' = record_file
           /\ exists' = exists]_vars

\* the steps of the single-pass path and of the multi-part path
SinglePassSteps == {"split", "transcribe", "retry", "text", "save_text", "record",
                    "persist", "delete_audio"}
MultiPartSteps == {"large", "index_done", "persist_done", "large_split", "loop",
                   "part_transcribe", "part_retry", "part_text", "save_part",
                   "persist_part", "check_completed", "index_final", "persist_final"}

\* C24: once the duration d of the audio is read and positive, process_audio_file
\* enters the single-pass path exactly when d <= max_part_time minutes and the
\* multi-part path exactly when d > max_part_time minutes; a call is never on
\* both paths, and a step of either path is taken only with such a duration.
C24_PathChosenByDuration ==
    [][/\ (pf_pc = "audio" /\ pf_pc' # "audio" /\ pf_duration' > 0) =>
              /\ (pf_pc' = "split") <=> (pf_duration' <= PartSeconds)
              /\ (pf_pc' = "large") <=> (pf_duration' > PartSeconds)
       /\ (pf_pc' \in SinglePassSteps) => (0 < pf_duration' /\ pf_duration' <= PartSeconds)
       /\ (pf_pc' \in MultiPartSteps) => (pf_duration' > PartSeconds)
       /\ (pf_pc \in SinglePassSteps) => (pf_pc' \notin MultiPartSteps)
       /\ (pf_pc \in MultiPartSteps) => (pf_pc' \notin SinglePassSteps)]_vars

\* a file of exactly max_part_time minutes went through the single-pass path
C24_Witness ==
    /\ PfReturned /\ pf_result = Ok(TRUE) /\ ~pf_skipped
    /\ pf_duration = PartSeconds
    /\ pf_total_parts = 0
    /\ OutputTextWritten

\* process_file is between a mutation of the ledger and the write of the
\* record file that follows it
InMutateThenPersist == pf_pc \in {"persist", "persist_part"}

\* C25: whenever process_file is outside a mutate-then-persist step (in
\* particular when it has returned), the record file holds the ledger that is
\* in memory.
C25_LedgerOnDiskEqualsMemory ==
    (record_file.state # "unparsable" /\ ~InMutateThenPersist) =>
        processed_audio = PersistedLedger

\* every part of the record is in processed_parts
AllPartsComplete(rec) == (0..(rec.total_parts - 1)) \subseteq rec.processed_parts

\* process_file returned Ok(true) at the end of the multi-part path (after the
\* loop over the pending parts)
MultiPartLoopEnded ==
    /\ PfReturned /\ pf_result = Ok(TRUE) /\ ~pf_skipped
    /\ pf_total_parts > 0 /\ pf_pending # <<>>

\* C27: at the end of the multi-part path the manifest is emitted exactly when
\* every part of the file is complete: the step after the loop goes to the
\* emission if and only if all parts are complete, a manifest is never
\* emitted while a part is pending, and a call that ends after the loop has
\* emitted the manifest if and only if all parts are complete.
C27_ManifestIffAllPartsComplete ==
    [][/\ (pf_pc = "check_completed" /\ pf_pc' \in {"index_final", "persist_final"}) =>
              ((pf_pc' = "index_final") <=> AllPartsComplete(processed_audio[pf_audio]))
       /\ (pf_manifest_emits' > pf_manifest_emits) =>
              /\ processed_audio[pf_audio].present
              /\ AllPartsComplete(processed_audio[pf_audio])
       /\ MultiPartLoopEnded' =>
              ((pf_manifest_emits' >= 1) <=> AllPartsComplete(processed_audio'[pf_audio']))]_vars

\* the loop ended with every part complete and the manifest emitted
C27_Witness ==
    /\ MultiPartLoopEnded
    /\ pf_manifest_emits = 1
    /\ file_stem(pf_audio) \in manifests
    /\ AllPartsComplete(MemRecord)
    /\ Cardinality(MemRecord.processed_parts) >= 2

(***************************************************************************)
(* Further properties of the file watcher (checked under SpecWatch).       *)
(***************************************************************************)

\* the timestamp of event e has been written to pending_files and its deferred
\* check scheduled
Recorded(e) == task_pc[e] \notin {"unspawned", "dropped"}

\* a newer event for the path of event e has been recorded
NewerEventRecorded(e) ==
    \E e2 \in Events : e2 > e /\ ev_path[e2] = ev_path[e] /\ Recorded(e2)

\* C26: a deferred check that reads the pending map after a newer event for
\* its path has been recorded is stale: it does not go on to move the path to
\* in-flight (and so dispatches nothing), however late it runs.
C26_StaleCheckDoesNothing ==
    [][\A e \in Events :
          (task_pc[e] = "read" /\ NewerEventRecorded(e)) => task_pc'[e] # "move"]_vars

\* the step takes event ev_count + 1 from the channel, for a path that is
\* in-flight at that moment
InFlightEventStep ==
    /\ ev_count' = ev_count + 1
    /\ ev_path'[ev_count + 1] \in processed_files

\* the deferred task of event e was never spawned: the event was ignored
Ignored(e) == task_pc[e] = "dropped"

\* C28: an event for a path that is in-flight changes nothing: the pending
\* map, the in-flight set and the deferred tasks are as before and no task is
\* scheduled for it; an ignored event stays ignored and never dispatches.
C28_InFlightEventIgnored ==
    [][/\ InFlightEventStep =>
              /\ pending_files' = pending_files
              /\ processed_files' = processed_files
              /\ task_wake' = task_wake
              /\ dispatched_by' = dispatched_by
              /\ h_pc' = "idle"
              /\ task_pc'[ev_count + 1] = "dropped"
              /\ \A e \in 1..ev_count : task_pc'[e] = task_pc[e]
       /\ \A e \in Events : Ignored(e) =>
              /\ Ignored(e)'
              /\ \A k \in 1..Len(dispatched_by') : dispatched_by'[k] # e]_vars

\* an event arrived for an existing file while the file was in-flight, and
\* the processing of the file has ended since
C28_Witness ==
    \E e \in Events :
        /\ Ignored(e)
        /\ path_exists[ev_path[e]]
        /\ \E d \in 1..(e - 1) : /\ ev_path[d] = ev_path[e]
                                 /\ task_pc[d] = "done"
                                 /\ \E k \in 1..Len(dispatched_by) : dispatched_by[k] = d
        /\ ev_path[e] \notin processed_files

\* C29 (checked under SpecWatchLive): every path that is moved to in-flight is
\* eventually removed from the in-flight set, whether the file vanished during
\* the settle delay or process_file returned.
C29_InFlightEventuallyRemoved ==
    \A path \in WatchedPaths :
        (path \in processed_files) ~> (path \notin processed_files)

\* one path left in-flight after its process_file call returned, another
\* after its file vanished during the settle delay
C29_Witness ==
    /\ processed_files = {}
    /\ \E e \in Events : /\ task_pc[e] = "done"
                         /\ \E k \in 1..Len(dispatched_by) : dispatched_by[k] = e
    /\ \E e \in Events : /\ task_pc[e] = "done"
                         /\ ~path_exists[ev_path[e]]
                         /\ pending_files[ev_path[e]] = NoInstant
                         /\ \A k \in 1..Len(dispatched_by) : dispatched_by[k] # e
                         /\ now >= ev_time[e] + debounce_seconds + SettleSeconds

(***************************************************************************)
(* Properties of the text assembly (checked under SpecText).               *)
(***************************************************************************)

\* the segment whose transcription is the text t
IndexOfText(t) == CHOOSE i \in 0..(MaxSegments - 1) : SegmentText(i) = t

\* C30: the assembled text holds the transcription of every segment in the
\* result map exactly once, in ascending segment index, whatever the order in
\* which the results arrived.
C30_TextInSegmentOrder ==
    (tx_pc = "done") =>
        /\ Len(tx_text) = Cardinality(ResultKeys)
        /\ \A i \in ResultKeys : \E k \in 1..Len(tx_text) : tx_text[k] = SegmentText(i)
        /\ \A k \in 1..Len(tx_text) : IndexOfText(tx_text[k]) \in ResultKeys
        /\ \A k, l \in 1..Len(tx_text) :
             k < l => IndexOfText(tx_text[k]) < IndexOfText(tx_text[l])

\* the results of segments 2, 0, 1 arrived in that order and the text is a, b, c
C30_Witness ==
    /\ tx_pc = "done"
    /\ Len(tx_order) >= 3
    /\ SubSeq(tx_order, 1, 3) = <<2, 0, 1>>
    /\ SubSeq(tx_text, 1, 3) = <<"a", "b", "c">>

(***************************************************************************)
(* Properties of the run statistics and of the retry counters.             *)
(***************************************************************************)

\* C31: when process_existing_files has a file's result and calls
\* update_stats, total_segments grows by the number of segments that the
\* process_file call dispatched, so that at the end of the run it is the
\* number of segments dispatched over the processed files.
C31_StatsCarrySegmentFigures ==
    [][(run_pc = "safe_execute" /\ run_pc' = "loop") =>
           stats'.total_segments = stats.total_segments + file_segments]_vars

(***************************************************************************)
(* Mutual exclusion and progress of the file watcher.                      *)
(***************************************************************************)

\* C32: no two deferred tasks are inside process_file for the same path at
\* the same time.
C32_OneInvocationPerPath ==
    \A e1, e2 \in Events :
        (task_pc[e1] = "process" /\ task_pc[e2] = "process" /\ ev_path[e1] = ev_path[e2])
            => e1 = e2

\* C33: no path is in pending_files and in processed_files at the same time.
C33_PendingAndInFlightDisjoint ==
    \A path \in WatchedPaths :
        ~(pending_files[path] # NoInstant /\ path \in processed_files)

\* the handler is accepting the event e: it found a media path that is not
\* among processed_files and is about to record it in pending_files; no
\* process_file call for that path is executing
AcceptedWhileIdle(e) ==
    /\ h_pc = "insert"
    /\ h_ev.id = e
    /\ \A d \in Events : ~(task_pc[d] = "process" /\ ev_path[d] = ev_path[e])

\* a deferred task has called process_file on the path of e, or the file of
\* that path is gone
DispatchedOrGone(e) ==
    \/ ev_path[e] # NoPath /\ ~path_exists[ev_path[e]]
    \/ \E d \in Events : task_pc[d] = "process" /\ ev_path[d] = ev_path[e]

\* C34 (checked under SpecWatchLive): an accepted event on a path that is not
\* being processed is eventually followed by a process_file call on that
\* path, unless the file is removed.
C34_AcceptedEventEventuallyDispatched ==
    \A e \in Events : AcceptedWhileIdle(e) ~> DispatchedOrGone(e)

\* a burst of two events on one path whose file is still there: the check of
\* the first event returned without a dispatch, the second one's is in
\* process_file
C34_Witness ==
    \E e, d \in Events :
        /\ e < d
        /\ task_pc[e] = "done"
        /\ task_pc[d] = "process"
        /\ ev_path[e] = ev_path[d]
        /\ path_exists[ev_path[e]]
        /\ \A k \in 1..Len(dispatched_by) : dispatched_by[k] # e

(***************************************************************************)
(* The single-pass path without usable text (checked under Spec).          *)
(***************************************************************************)

\* the steps of process_audio_file on the single-pass path before the text
\* is saved
BeforeSaveSteps == {"audio", "split", "transcribe", "retry", "text"}

\* C35: up to the assembly of the text the single-pass path writes nothing:
\* the ledger, the record file, the output files and the media files stay as
\* they are. When the assembled text is empty process_file returns Ok(false)
\* with the record of the file as it was when the call began and the audio
\* still there, so the file is not recognized as processed by a later run.
C35_EmptyResultLeavesNoTrace ==
    [][/\ (pf_pc \in BeforeSaveSteps /\ pf_pc' \in BeforeSaveSteps \cup {"ret"}) =>
              /\ processed_audio' = processed_audio
              /\ record_file' = record_file
              /\ out_texts' = out_texts
              /\ manifests' = manifests
              /\ exists' = exists
       /\ (pf_pc = "text" /\ pf_pc' = "ret" /\ ~IsErr(pf_result')) =>
              /\ pf_result' = Ok(FALSE)
              /\ pf_text' = <<>>
              /\ processed_audio'[AudioKeyOf(pf_file)] = pf_entry
              /\ pf_audio \in exists'
              /\ ~is_recognized_file(pf_file)']_vars

\* a file whose segments were dispatched without any transcription has
\* returned Ok(false)
C35_Witness ==
    /\ PfReturned /\ pf_result = Ok(FALSE)
    /\ pf_dispatched = pf_segments /\ pf_segments # {}
    /\ pf_results = {} /\ pf_text = <<>>
    /\ pf_total_parts = 0
    /\ pf_audio \in exists

(***************************************************************************)
(* Termination of safe_execute (checked under SpecRetryLive).              *)
(***************************************************************************)

\* the call of worker w has ended with the Ok value of its last invocation
\* or, after a failure, with the composite error
SeEndedWithResult(w) ==
    /\ se_pc[w] = "done"
    /\ IF IsOk(se_last[w])
         THEN se_result[w] = Ok(se_last[w].val)
         ELSE SeCompositeErrorReturned(w)

\* C36: a safe_execute call invokes the wrapped operation at most
\* max_retries + 1 times, makes no invocation after one that returned Ok, and,
\* every invocation returning, ends with the Ok value or the composite error.
C36_SafeExecuteTerminates ==
    /\ [](\A w \in Workers : se_ncall[w] <= max_retries + 1)
    /\ [][\A w \in Workers :
            (SeActive(w) /\ IsOk(se_last[w])) =>
                (se_ncall'[w] = se_ncall[w] \/ se_pc'[w] = "idle")]_vars
    /\ [](\A w \in Workers : se_pc[w] = "done" => SeEndedWithResult(w))
    /\ \A w \in Workers : (se_pc[w] = "call") ~> SeEndedWithResult(w)

\* one call ended with the composite error after max_retries + 1 invocations,
\* another with the Ok value after a retry
C36_Witness ==
    \E w, v \in Workers :
        /\ SeEndedWithResult(w) /\ IsErr(se_result[w]) /\ se_ncall[w] = max_retries + 1
        /\ SeEndedWithResult(v) /\ IsOk(se_result[v]) /\ se_ncall[v] > 1

(***************************************************************************)
(* Properties of the life cycle of the FileWatcher (checked under          *)
(* SpecLifecycle).                                                         *)
(***************************************************************************)

\* C37: watcher_running is true exactly when a watcher instance is held.
C37_RunningIffWatcherHeld == watcher_running <=> watcher

(***************************************************************************)
(* Invariants of the counters.                                             *)
(***************************************************************************)

\* the sum of the values of error_counts over the contexts C
RECURSIVE SumErrorCounts(_)
SumErrorCounts(C) ==
    IF C = {} THEN 0
    ELSE LET c == CHOOSE x \in C : TRUE IN error_counts[c] + SumErrorCounts(C \ {c})

\* C38: total_retries is the sum of the values of error_counts in every
\* state of an ErrorHandler, and neither total_retries nor any value of
\* error_counts ever decreases.
C38_RetriesEqualSumOfErrorCounts ==
    /\ [](total_retries = SumErrorCounts(Contexts))
    /\ [][/\ total_retries' >= total_retries
          /\ \A c \in Contexts : error_counts'[c] >= error_counts[c]]_vars

\* errors were counted under two context labels, by calls of two workers
C38_Witness ==
    /\ \E c, d \in Contexts : c # d /\ error_counts[c] > 0 /\ error_counts[d] > 1
    /\ \A w \in Workers : se_nfail[w] > 0
    /\ total_retries >= 3

\* C39: in every state of a run the files counted as processed are those
\* counted as successful plus those counted as failed, and never more than
\* the files process_existing_files collected.
C39_FileCountsAddUp ==
    /\ stats.processed_files = stats.successful_files + stats.failed_files
    /\ run_pc \in {"loop", "safe_execute", "done", "aborted"} =>
           /\ stats.processed_files <= stats.total_files
           /\ stats.total_files = Len(media_files)
           /\ stats.processed_files = file_idx - 1

\* a run over two files has ended with one file counted as successful and
\* one as failed
C39_Witness ==
    /\ run_pc = "done"
    /\ stats.total_files = 2
    /\ stats.processed_files = 2
    /\ stats.successful_files = 1
    /\ stats.failed_files = 1

====
